---- MODULE Spec2Model ----
(***************************************************************************)
(* BoilIt (src/src/boilit.ts, src/src/cli.ts, errors.ts): one run of       *)
(* `boilit use <repo> [modules...]`.  The run acquires a workspace, clones *)
(* the source repository, loads and validates boilit.toml, resolves the    *)
(* requested modules, validates their refs, replays every ref of every     *)
(* resolved module by cherry-picking (with an interactive conflict loop),  *)
(* copies the result into the target and removes the workspace.            *)
(*                                                                         *)
(* The version-control service, the file system and the operator are the   *)
(* environment: every awaited external call is one step whose outcome is   *)
(* chosen nondeterministically among the outcomes the call can have.       *)
(***************************************************************************)
EXTENDS Integers, Sequences, FiniteSets, TLC

(***************************************************************************)
(* Bounds of the model.                                                    *)
(***************************************************************************)
\* longest `dependencies` array of a module in the configurations explored
MaxDeps == 2
\* longest list of requested module names handed to resolveDependencies
MaxReq == 2
\* number of conflict prompts answered in one run
MaxPrompts == 1
\* longest revision list produced by one range expansion (rev-list)
MaxShas == 2
\* number of refs declared by all modules of a configuration together
MaxTotalRefs == 2
\* longest glob pattern and longest relative path given to the matcher
MaxPatternLen == 4
MaxPathLen == 3
\* longest pattern and path made of regex operators and a letter
MaxLiteralLen == 2
\* use() invocations started from one working directory
MaxInvocations == 3

(***************************************************************************)
(* Values.                                                                 *)
(***************************************************************************)
\* module names of the configurations (keys of config.modules)
Names == {"A", "B", "C"}
\* Object.keys(config.modules) of the three-module configurations
AllKeys == <<"A", "B", "C">>

\* an optional field: absent is <<>>, a present value v is <<v>>
None == <<>>
Some(v) == <<v>>
IsSome(o) == Len(o) = 1
Get(o) == o[1]

Range(s) == {s[i] : i \in 1..Len(s)}

\* sequences over S of length lo..hi
SeqsOf(S, lo, hi) == UNION {[1..n -> S] : n \in lo..hi}

\* Array.prototype.includes
Includes(s, x) == \E i \in 1..Len(s) : s[i] = x

\* Array.prototype.indexOf, 1-based; 0 when absent
IndexOf(s, x) ==
    IF Includes(s, x) THEN CHOOSE i \in 1..Len(s) : s[i] = x /\ \A j \in 1..(i - 1) : s[j] # x
    ELSE 0

\* Array.prototype.slice(from) with a 1-based start
SliceFrom(s, from) == SubSeq(s, from, Len(s))

\* Set.prototype.add on an insertion-ordered set kept as a sequence
SetAdd(s, x) == IF Includes(s, x) THEN s ELSE Append(s, x)

(***************************************************************************)
(* Errors.  cls is the class of the thrown value, code the exit code of a  *)
(* failed external command (0 when the value carries none), msg the kind   *)
(* of message.                                                             *)
(***************************************************************************)
NoError == [cls |-> "none", code |-> 0, msg |-> ""]
MkError(m) == [cls |-> "Error", code |-> 0, msg |-> m]
ExecaError(c) == [cls |-> "ExecaError", code |-> c, msg |-> "command failed"]
OperationCancelledError == [cls |-> "OperationCancelledError", code |-> 0, msg |-> "Cherry-pick cancelled by user"]

(***************************************************************************)
(* Configuration (src/src/types.ts).  keys is Object.keys(config.modules)  *)
(* in insertion order; modules maps each key to its Module.  An optional   *)
(* array field is None when absent and Some(array) when present.           *)
(***************************************************************************)
Module(deps, refs, files) ==
    [dependencies |-> deps, refs |-> refs, files |-> files, ignore |-> None, path |-> None,
     origin |-> None]

\* a module that names the remote its refs come from
OriginModule(origin, refs) ==
    [dependencies |-> None, refs |-> refs, files |-> None, ignore |-> None, path |-> None,
     origin |-> origin]

\* a module that only selects files: include patterns, ignore patterns, destination sub-path
FileModule(files, ignore, path) ==
    [dependencies |-> None, refs |-> None, files |-> files, ignore |-> ignore, path |-> path,
     origin |-> None]

\* the `default` table: include and ignore patterns, under the origin the
\* schema requires of it (types.ts:14)
Default(files, ignore) == [origin |-> "D", files |-> files, ignore |-> ignore]

\* DefaultSchema (types.ts:13-17) on a parsed `default` table, which has the
\* keys the file wrote: `origin: z.string()` is not optional
DefaultSchema(dflt) == "origin" \in DOMAIN dflt

\* a `default` table that only names the origin
OriginDefault(origin) == [origin |-> origin, files |-> None, ignore |-> None]

\* BoilItConfig: the module table, its keys in insertion order, the optional defaults
Config(ks, ms, dflt) == [keys |-> ks, modules |-> ms, default |-> dflt]

HasModule(cfg, name) == name \in DOMAIN cfg.modules

\* result of a validation: kind "ok", or the kind of the error thrown, the
\* module it names and the list of names it reports
ConfigOk == [kind |-> "ok", module |-> "", report |-> <<>>, available |-> <<>>]
ConfigError(k, m, r) == [kind |-> k, module |-> m, report |-> r, available |-> <<>>]

(***************************************************************************)
(* findDuplicates (boilit.ts:365-377)                                      *)
(***************************************************************************)
RECURSIVE FindDuplicatesFrom(_, _, _, _)
FindDuplicatesFrom(array, i, seen, duplicates) ==
    IF i > Len(array) THEN duplicates
    ELSE FindDuplicatesFrom(array, i + 1, seen \cup {array[i]},
                            IF array[i] \in seen THEN SetAdd(duplicates, array[i]) ELSE duplicates)

findDuplicates(array) == FindDuplicatesFrom(array, 1, {}, <<>>)

(***************************************************************************)
(* detectCircularDependency (boilit.ts:379-407).  visited and path are     *)
(* shared mutable arguments in the source; a call that returns null has    *)
(* removed what it added (visited.delete, path.pop), so each call sees     *)
(* the caller's visited set and path extended by the caller only.          *)
(* The result is None for null and Some(cycle) for a cycle.                *)
(***************************************************************************)
RECURSIVE detectCircularDependency(_, _, _, _, _, _)
RECURSIVE DetectInDependencies(_, _, _, _, _, _)

\* boilit.ts:386-389: the module is already on the current path
ReenteredSegment(moduleName, path) ==
    LET cycleStart == IndexOf(path, moduleName)
    IN  IF cycleStart >= 1 THEN SliceFrom(path, cycleStart) ELSE path

\* a search that keeps a module marked after it has left it: a dependency
\* that an earlier dependency of the same module led to is found marked
detectCircularDependency_keepVisited(cfg, moduleName, dependencies, allModuleNames, visited, path) ==
    IF moduleName \in visited
    THEN Some(ReenteredSegment(moduleName, path))
    ELSE IF \E i, j \in 1..Len(dependencies) :
               /\ i < j
               /\ Includes(allModuleNames, dependencies[i])
               /\ Includes(allModuleNames, dependencies[j])
               /\ IsSome(cfg.modules[dependencies[i]].dependencies)
               /\ Includes(Get(cfg.modules[dependencies[i]].dependencies), dependencies[j])
               /\ IsSome(cfg.modules[dependencies[j]].dependencies)
    THEN Some(Append(path, moduleName))
    ELSE DetectInDependencies(cfg, dependencies, 1, allModuleNames,
                              visited \cup {moduleName}, Append(path, moduleName))

detectCircularDependency(cfg, moduleName, dependencies, allModuleNames, visited, path) ==
    IF moduleName \in visited
    THEN Some(ReenteredSegment(moduleName, path))
    ELSE DetectInDependencies(cfg, dependencies, 1, allModuleNames,
                              visited \cup {moduleName}, Append(path, moduleName))

\* the loop returning the result of its first descent, cycle or not
DetectInDependencies_firstOnly(cfg, dependencies, i, allModuleNames, visited, path) ==
    IF i > Len(dependencies) THEN None
    ELSE LET dep == dependencies[i]
         IN  IF ~Includes(allModuleNames, dep) THEN None
             ELSE IF IsSome(cfg.modules[dep].dependencies)
                  THEN detectCircularDependency(cfg, dep, Get(cfg.modules[dep].dependencies),
                                                allModuleNames, visited, path)
                  ELSE None

\* boilit.ts:394-402: the loop over the dependencies, from index i on
DetectInDependencies(cfg, dependencies, i, allModuleNames, visited, path) ==
    IF i > Len(dependencies) THEN None
    ELSE LET dep == dependencies[i]
             cycle == IF ~Includes(allModuleNames, dep) THEN None
                      ELSE IF IsSome(cfg.modules[dep].dependencies)
                           THEN detectCircularDependency(cfg, dep, Get(cfg.modules[dep].dependencies),
                                                         allModuleNames, visited, path)
                           ELSE None
         IN  IF IsSome(cycle) THEN cycle
             ELSE DetectInDependencies(cfg, dependencies, i + 1, allModuleNames, visited, path)

(***************************************************************************)
(* validateModule (boilit.ts:316-363)                                      *)
(***************************************************************************)
RECURSIVE DependencyError(_, _, _, _)
\* the loop that does not look the dependency up
DependencyError_noLookup(moduleName, dependencies, i, allModuleNames) ==
    IF i > Len(dependencies) THEN ConfigOk
    ELSE IF dependencies[i] = moduleName
         THEN ConfigError("selfDependency", moduleName, <<>>)
    ELSE DependencyError(moduleName, dependencies, i + 1, allModuleNames)

\* boilit.ts:318-332: the first dependency, in declared order, that is not
\* a module or is the module itself
DependencyError(moduleName, dependencies, i, allModuleNames) ==
    IF i > Len(dependencies) THEN ConfigOk
    ELSE IF ~Includes(allModuleNames, dependencies[i])
         THEN ConfigError("invalidDependency", moduleName, <<dependencies[i]>>)
    ELSE IF dependencies[i] = moduleName
         THEN ConfigError("selfDependency", moduleName, <<>>)
    ELSE DependencyError(moduleName, dependencies, i + 1, allModuleNames)

\* boilit.ts:334-340: the names of the "Circular dependency detected"
\* message, `${circularDep.join(" -> ")} -> ${moduleName}`
CircularReport(circularDep, moduleName) == Append(circularDep, moduleName)

\* the checks that look at the refs array only
EmptyArrayError_refsOnly(moduleName, module) ==
    IF IsSome(module.refs) /\ Len(Get(module.refs)) = 0
    THEN ConfigError("emptyRefs", moduleName, <<>>)
    ELSE ConfigOk

\* boilit.ts:343-362: an array that is present has an entry
EmptyArrayError(moduleName, module) ==
    IF IsSome(module.refs) /\ Len(Get(module.refs)) = 0
    THEN ConfigError("emptyRefs", moduleName, <<>>)
    ELSE IF IsSome(module.files) /\ Len(Get(module.files)) = 0
    THEN ConfigError("emptyFiles", moduleName, <<>>)
    ELSE IF IsSome(module.dependencies) /\ Len(Get(module.dependencies)) = 0
    THEN ConfigError("emptyDependencies", moduleName, <<>>)
    ELSE ConfigOk

validateModule(cfg, moduleName, allModuleNames) ==
    LET module == cfg.modules[moduleName]
        depError == IF IsSome(module.dependencies)
                    THEN DependencyError(moduleName, Get(module.dependencies), 1, allModuleNames)
                    ELSE ConfigOk
        circularDep == IF IsSome(module.dependencies)
                       THEN detectCircularDependency(cfg, moduleName, Get(module.dependencies),
                                                     allModuleNames, {}, <<>>)
                       ELSE None
    IN  IF depError.kind # "ok" THEN depError
        ELSE IF IsSome(circularDep)
             THEN ConfigError("circular", moduleName, CircularReport(Get(circularDep), moduleName))
        ELSE EmptyArrayError(moduleName, module)

(***************************************************************************)
(* validateConfig (boilit.ts:298-314)                                      *)
(***************************************************************************)
RECURSIVE ValidateModulesFrom(_, _)
\* a validation that stops after the first module
ValidateModulesFrom_firstOnly(cfg, i) ==
    IF i > Len(cfg.keys) THEN ConfigOk ELSE validateModule(cfg, cfg.keys[i], cfg.keys)

\* boilit.ts:311-313: the loop over the modules, from index i on
ValidateModulesFrom(cfg, i) ==
    IF i > Len(cfg.keys) THEN ConfigOk
    ELSE LET e == validateModule(cfg, cfg.keys[i], cfg.keys)
         IN  IF e.kind # "ok" THEN e ELSE ValidateModulesFrom(cfg, i + 1)

validateConfig(cfg) ==
    LET duplicates == findDuplicates(cfg.keys)
    IN  IF Len(duplicates) > 0 THEN ConfigError("duplicate", "", duplicates)
        ELSE ValidateModulesFrom(cfg, 1)

(***************************************************************************)
(* validateRequestedModules (boilit.ts:76-98)                              *)
(***************************************************************************)
RECURSIVE InvalidModules(_, _, _)

\* the loop stopping at the first unknown name
InvalidModules_firstOnly(availableModules, requestedModules, i) ==
    IF i > Len(requestedModules) THEN <<>>
    ELSE IF Includes(availableModules, requestedModules[i])
         THEN InvalidModules(availableModules, requestedModules, i + 1)
         ELSE <<requestedModules[i]>>

\* boilit.ts:82-86: the loop over the requested names, from index i on
InvalidModules(availableModules, requestedModules, i) ==
    IF i > Len(requestedModules) THEN <<>>
    ELSE (IF Includes(availableModules, requestedModules[i]) THEN <<>> ELSE <<requestedModules[i]>>)
         \o InvalidModules(availableModules, requestedModules, i + 1)

\* boilit.ts:88-97: the one error, naming the unknown names and either the
\* available modules or that none is defined
RequestError(invalidModules, availableModules) ==
    [kind |-> IF Len(availableModules) > 0 THEN "invalidModules" ELSE "noModulesDefined",
     module |-> "",
     report |-> invalidModules,
     available |-> availableModules]

validateRequestedModules(cfg, requestedModules) ==
    LET invalidModules == InvalidModules(cfg.keys, requestedModules, 1)
    IN  IF Len(invalidModules) > 0
        THEN RequestError(invalidModules, cfg.keys)
        ELSE ConfigOk

(***************************************************************************)
(* resolveDependencies (boilit.ts:160-185).  resolved is the insertion-    *)
(* ordered Set of the source, kept as a duplicate-free sequence.           *)
(***************************************************************************)
RECURSIVE resolve(_, _, _)
RECURSIVE ResolveEach(_, _, _, _)

\* the loop taking the dependencies last to first
ResolveEach_reversed(cfg, dependencies, i, resolved) ==
    IF i > Len(dependencies) THEN resolved
    ELSE LET dep == dependencies[Len(dependencies) + 1 - i]
         IN  ResolveEach(cfg, dependencies, i + 1,
                         IF ~Includes(resolved, dep) THEN resolve(cfg, dep, resolved) ELSE resolved)

\* boilit.ts:170-174: the loop over module.dependencies, from index i on
ResolveEach(cfg, dependencies, i, resolved) ==
    IF i > Len(dependencies) THEN resolved
    ELSE ResolveEach(cfg, dependencies, i + 1,
                     IF ~Includes(resolved, dependencies[i])
                     THEN resolve(cfg, dependencies[i], resolved)
                     ELSE resolved)

\* the closure adding the module before its dependencies
resolve_addFirst(cfg, moduleName, resolved) ==
    IF ~HasModule(cfg, moduleName) THEN resolved
    ELSE LET module == cfg.modules[moduleName]
             added == SetAdd(resolved, moduleName)
         IN  IF IsSome(module.dependencies)
             THEN ResolveEach(cfg, Get(module.dependencies), 1, added)
             ELSE added

\* boilit.ts:165-178: the inner closure
resolve(cfg, moduleName, resolved) ==
    IF ~HasModule(cfg, moduleName) THEN resolved
    ELSE LET module == cfg.modules[moduleName]
             afterDeps == IF IsSome(module.dependencies)
                          THEN ResolveEach(cfg, Get(module.dependencies), 1, resolved)
                          ELSE resolved
         IN  SetAdd(afterDeps, moduleName)

RECURSIVE ResolveRequested(_, _, _, _)
\* the loop putting a name that is no module into the output as it stands
ResolveRequested_keepUnknown(cfg, moduleNames, i, resolved) ==
    IF i > Len(moduleNames) THEN resolved
    ELSE ResolveRequested(cfg, moduleNames, i + 1,
                          IF HasModule(cfg, moduleNames[i])
                          THEN resolve(cfg, moduleNames[i], resolved)
                          ELSE SetAdd(resolved, moduleNames[i]))

\* boilit.ts:180-182: the loop over the requested names, from index i on
ResolveRequested(cfg, moduleNames, i, resolved) ==
    IF i > Len(moduleNames) THEN resolved
    ELSE ResolveRequested(cfg, moduleNames, i + 1, resolve(cfg, moduleNames[i], resolved))

\* boilit.ts:160-185; a configuration that was never loaded (this.config is
\* null) is the configuration without modules
resolveDependencies(cfg, moduleNames) ==
    IF cfg = Config(<<>>, <<>>, None) THEN <<>> ELSE ResolveRequested(cfg, moduleNames, 1, <<>>)

(***************************************************************************)
(* globToRegExp (boilit.ts:567-580).  A string is the sequence of its      *)
(* characters.  The pattern goes through the replacements of the source    *)
(* one after the other, each over the whole text, and the resulting text   *)
(* is compiled as new RegExp("^" + p + "$") compiles it.                   *)
(***************************************************************************)
DS_DIR == <<":", ":", "D", "S", "_", "D", "I", "R", ":", ":">>
DS == <<":", ":", "D", "S", ":", ":">>
NotSlashStar == <<"[", "^", "/", "]", "*">>
OptionalDirs == <<"(", "?", ":", ".", "*", "/", ")", "?">>
DotStar == <<".", "*">>

\* the characters of the class [.+^${}()|[\]\\]

StartsWithAt(s, i, t) == i + Len(t) - 1 <= Len(s) /\ SubSeq(s, i, i + Len(t) - 1) = t

\* String.prototype.replace with a global regex for the literal text from:
\* occurrences are taken left to right and do not overlap
RECURSIVE ReplaceAllFrom(_, _, _, _)
ReplaceAllFrom(s, i, from, to) ==
    IF i > Len(s) THEN <<>>
    ELSE IF StartsWithAt(s, i, from) THEN to \o ReplaceAllFrom(s, i + Len(from), from, to)
    ELSE <<s[i]>> \o ReplaceAllFrom(s, i + 1, from, to)

ReplaceAll(s, from, to) == ReplaceAllFrom(s, 1, from, to)

\* the escape step leaving the text as it is
EscapeSpecials_none(s) == s

\* boilit.ts:573: every regex special gets a backslash, "$&" being the match
EscapeSpecials(s) ==
    IF s = <<>> THEN <<>>
    ELSE LET F[i \in 1..Len(s)] ==
                 (IF i = 1 THEN <<>> ELSE F[i - 1])
                 \o (IF s[i] \in {".", "+", "^", "$", "{", "}", "(", ")", "|", "[", "]", "\\"} THEN <<"\\", s[i]>> ELSE <<s[i]>>)
         IN  F[Len(s)]

\* the single star crossing directory boundaries
SingleStar_any(s) == ReplaceAll(s, <<"*">>, DotStar)

\* boilit.ts:575: the single star
SingleStar(s) == ReplaceAll(s, <<"*">>, NotSlashStar)

\* boilit.ts:568-578: the text between "^" and "$"
RegExpSource(pattern) ==
    LET p1 == ReplaceAll(pattern, <<"\\">>, <<"/">>)
        p2 == ReplaceAll(p1, <<"*", "*", "/">>, DS_DIR)
        p3 == ReplaceAll(p2, <<"*", "*">>, DS)
        p4 == EscapeSpecials(p3)
        p5 == SingleStar(p4)
        p6 == ReplaceAll(p5, DS_DIR, OptionalDirs)
    IN  ReplaceAll(p6, DS, DotStar)

(***************************************************************************)
(* The regular expression compiled from that text.  The text consists of   *)
(* escaped characters, plain characters, the three groups written by the   *)
(* replacements, and "?", the one regex operator the escape step leaves    *)
(* alone: after an atom it makes a character optional and a repetition     *)
(* lazy; with nothing to repeat the constructor throws a SyntaxError.  A   *)
(* "." without a backslash stands for any character.                       *)
(***************************************************************************)
Atom(kind, ch, opt) == [kind |-> kind, ch |-> ch, opt |-> opt]
RegExpOf(atoms) == [ok |-> TRUE, atoms |-> atoms]
SyntaxError == [ok |-> FALSE, atoms |-> <<>>]

\* number of "?" at index i and after it
RECURSIVE CountQuestion(_, _)
CountQuestion(r, i) ==
    IF i <= Len(r) /\ r[i] = "?" THEN 1 + CountQuestion(r, i + 1) ELSE 0

RECURSIVE CompileFrom(_, _, _)
CompileFrom(r, i, atoms) ==
    IF i > Len(r) THEN RegExpOf(atoms)
    ELSE IF r[i] = "?" THEN SyntaxError
    ELSE LET kind == IF StartsWithAt(r, i, NotSlashStar) THEN "notSlashStar"
                     ELSE IF StartsWithAt(r, i, OptionalDirs) THEN "optionalDirs"
                     ELSE IF StartsWithAt(r, i, DotStar) THEN "dotStar"
                     ELSE IF r[i] = "." THEN "anyChar"
                     ELSE "char"
             len == IF kind = "notSlashStar" THEN Len(NotSlashStar)
                    ELSE IF kind = "optionalDirs" THEN Len(OptionalDirs)
                    ELSE IF kind = "dotStar" THEN Len(DotStar)
                    ELSE IF r[i] = "\\" THEN 2
                    ELSE 1
             ch == IF kind # "char" THEN "" ELSE IF r[i] = "\\" THEN r[i + 1] ELSE r[i]
             q == CountQuestion(r, i + len)
             single == kind \in {"char", "anyChar"}
         IN  IF q > (IF single THEN 2 ELSE 1) THEN SyntaxError
             ELSE CompileFrom(r, i + len + q, Append(atoms, Atom(kind, ch, single /\ q > 0)))

\* boilit.ts:579: new RegExp("^" + p + "$")
globToRegExp(pattern) == CompileFrom(RegExpSource(pattern), 1, <<>>)

\* RegExp.prototype.test of an anchored expression: atoms k.. match str from j to its end
RECURSIVE MatchFrom(_, _, _, _)
MatchFrom(atoms, k, str, j) ==
    IF k > Len(atoms) THEN j = Len(str) + 1
    ELSE LET a == atoms[k]
         IN  IF a.kind \in {"char", "anyChar"}
             THEN \/ /\ j <= Len(str)
                     /\ a.kind = "anyChar" \/ str[j] = a.ch
                     /\ MatchFrom(atoms, k + 1, str, j + 1)
                  \/ a.opt /\ MatchFrom(atoms, k + 1, str, j)
             ELSE IF a.kind = "notSlashStar"
             THEN \E e \in j..(Len(str) + 1) :
                     /\ \A x \in j..(e - 1) : str[x] # "/"
                     /\ MatchFrom(atoms, k + 1, str, e)
             ELSE IF a.kind = "dotStar"
             THEN \E e \in j..(Len(str) + 1) : MatchFrom(atoms, k + 1, str, e)
             ELSE \/ MatchFrom(atoms, k + 1, str, j)
                  \/ \E e \in (j + 1)..(Len(str) + 1) :
                        str[e - 1] = "/" /\ MatchFrom(atoms, k + 1, str, e)

RegExpTest(regex, str) == MatchFrom(regex.atoms, 1, str, 1)

(***************************************************************************)
(* Paths (node:path, POSIX).                                               *)
(***************************************************************************)
\* String.prototype.split("/")
RECURSIVE SplitFrom(_, _, _)
SplitFrom(s, i, cur) ==
    IF i > Len(s) THEN <<cur>>
    ELSE IF s[i] = "/" THEN <<cur>> \o SplitFrom(s, i + 1, <<>>)
    ELSE SplitFrom(s, i + 1, Append(cur, s[i]))

Split(s) == SplitFrom(s, 1, <<>>)

\* Array.prototype.join("/")
RECURSIVE JoinSegments(_)
JoinSegments(segs) ==
    IF segs = <<>> THEN <<>>
    ELSE IF Len(segs) = 1 THEN segs[1]
    ELSE segs[1] \o <<"/">> \o JoinSegments(Tail(segs))

\* path.normalize on the segments of a relative path: "" and "." are
\* dropped, ".." removes the segment before it when there is one to remove
RECURSIVE NormalizeSegments(_, _, _)
NormalizeSegments(segs, i, out) ==
    IF i > Len(segs) THEN out
    ELSE IF segs[i] = <<>> \/ segs[i] = <<".">> THEN NormalizeSegments(segs, i + 1, out)
    ELSE IF segs[i] = <<".", ".">> /\ Len(out) > 0 /\ out[Len(out)] # <<".", ".">>
         THEN NormalizeSegments(segs, i + 1, SubSeq(out, 1, Len(out) - 1))
    ELSE NormalizeSegments(segs, i + 1, Append(out, segs[i]))

\* path.join(a, b) for relative a
PathJoin(a, b) ==
    LET segs == NormalizeSegments(Split(a \o <<"/">> \o b), 1, <<>>)
    IN  IF segs = <<>> THEN <<".">> ELSE JoinSegments(segs)

\* the clone inside the workspace (boilit.ts:61) and the default target (boilit.ts:19)
RepoDir == <<"r">>
TargetPath == <<".">>

\* path.relative(repoDir, abs) for a file below repoDir, with "/" separators
PathRelative(root, abs) == SubSeq(abs, Len(root) + 2, Len(abs))

(***************************************************************************)
(* collectFiles (boilit.ts:539-565) on a workspace given by the relative   *)
(* paths of its files in the order the walk meets them.                    *)
(***************************************************************************)
DotGit == <<".", "g", "i", "t">>

\* the walk entering every directory
BelowDotGit_never(rel) == FALSE

\* boilit.ts:551-552: the walk does not enter a directory named .git
BelowDotGit(rel) ==
    LET segs == Split(rel)
    IN  \E i \in 1..(Len(segs) - 1) : segs[i] = DotGit

\* patterns.map((p) => this.globToRegExp(p))
RECURSIVE Regexes(_)
Regexes(patterns) ==
    IF patterns = <<>> THEN <<>>
    ELSE <<globToRegExp(Head(patterns))>> \o Regexes(Tail(patterns))
AllCompiled(regexes) == \A i \in 1..Len(regexes) : regexes[i].ok

\* regexes.some((r) => r.test(rel))
SomeMatch(regexes, rel) == \E i \in 1..Len(regexes) : RegExpTest(regexes[i], rel)

\* boilit.ts:546-561: the walk over the files from index i on, pushing the
\* full path of every match
RECURSIVE Walk(_, _, _, _)
Walk(files, i, root, regexes) ==
    IF i > Len(files) THEN <<>>
    ELSE (IF ~BelowDotGit(files[i]) /\ SomeMatch(regexes, files[i])
          THEN <<PathJoin(root, files[i])>>
          ELSE <<>>)
         \o Walk(files, i + 1, root, regexes)

collectFiles(files, root, patterns) == Walk(files, 1, root, Regexes(patterns))

(***************************************************************************)
(* copyToTarget (boilit.ts:210-271): the copy plan.  A plan is the array   *)
(* toCopy, the Set added of the keys seen, and whether every pattern met   *)
(* so far compiled (globToRegExp throws otherwise).                        *)
(***************************************************************************)
Plan(entries, keys, ok) == [toCopy |-> entries, added |-> keys, ok |-> ok]

\* boilit.ts:231: `${abs} -> ${dest}`
CopyKey(abs, dest) == abs \o <<" ", "-", ">", " ">> \o dest

\* ignoreRegexes.some((r) => r.test(rel))
Ignored(ignoreRegexes, rel) == SomeMatch(ignoreRegexes, rel)

\* the loop pushing every match, seen before or not
RECURSIVE AddEach(_, _, _, _, _)
AddEach_noDedupe(plan, files, i, ignoreRegexes, destBase) ==
    IF i > Len(files) THEN plan
    ELSE LET abs == files[i]
             rel == PathRelative(RepoDir, abs)
             dest == PathJoin(destBase, rel)
         IN  IF Ignored(ignoreRegexes, rel)
             THEN AddEach(plan, files, i + 1, ignoreRegexes, destBase)
             ELSE AddEach(Plan(Append(plan.toCopy, <<abs, dest>>), plan.added, plan.ok),
                          files, i + 1, ignoreRegexes, destBase)

\* boilit.ts:227-235: the loop of addCopies over the collected files, from index i on
AddEach(plan, files, i, ignoreRegexes, destBase) ==
    IF i > Len(files) THEN plan
    ELSE LET abs == files[i]
             rel == PathRelative(RepoDir, abs)
             dest == PathJoin(destBase, rel)
             key == CopyKey(abs, dest)
         IN  IF Ignored(ignoreRegexes, rel) \/ key \in plan.added
             THEN AddEach(plan, files, i + 1, ignoreRegexes, destBase)
             ELSE AddEach(Plan(Append(plan.toCopy, <<abs, dest>>), plan.added \cup {key}, plan.ok),
                          files, i + 1, ignoreRegexes, destBase)

\* boilit.ts:220-236: addCopies
addCopies(plan, files, includes, ignores, destBase) ==
    IF ~plan.ok THEN plan
    ELSE IF ~AllCompiled(Regexes(includes)) \/ ~AllCompiled(Regexes(ignores))
    THEN Plan(plan.toCopy, plan.added, FALSE)
    ELSE AddEach(plan, collectFiles(files, RepoDir, includes), 1, Regexes(ignores), destBase)

\* an optional array, `|| []`
OrEmpty(o) == IF IsSome(o) THEN Get(o) ELSE <<>>

\* cfg?.default?.files and cfg?.default?.ignore || []
DefaultFiles(cfg) == IF IsSome(cfg.default) THEN Get(cfg.default).files ELSE None
DefaultIgnore(cfg) == IF IsSome(cfg.default) THEN OrEmpty(Get(cfg.default).ignore) ELSE <<>>

\* a present, non-empty array
NonEmpty(o) == IsSome(o) /\ Len(Get(o)) > 0

\* boilit.ts:238
AnyModuleHasFiles(cfg, names) ==
    \E i \in 1..Len(names) : HasModule(cfg, names[i]) /\ NonEmpty(cfg.modules[names[i]].files)

\* the module rule placing every module at the target root
DestBase_root(mod, targetPath) == targetPath

\* boilit.ts:249: mod.path ? path.join(targetPath, mod.path) : targetPath
DestBase(mod, targetPath) ==
    IF NonEmpty(mod.path) THEN PathJoin(targetPath, Get(mod.path)) ELSE targetPath

\* boilit.ts:244-253: the loop over modulesToApply, from index i on
RECURSIVE ModuleRules(_, _, _, _, _, _)
ModuleRules(plan, cfg, names, i, files, targetPath) ==
    IF i > Len(names) THEN plan
    ELSE IF ~HasModule(cfg, names[i]) \/ ~NonEmpty(cfg.modules[names[i]].files)
         THEN ModuleRules(plan, cfg, names, i + 1, files, targetPath)
    ELSE LET mod == cfg.modules[names[i]]
         IN  ModuleRules(addCopies(plan, files, Get(mod.files),
                                   DefaultIgnore(cfg) \o OrEmpty(mod.ignore),
                                   DestBase(mod, targetPath)),
                         cfg, names, i + 1, files, targetPath)

\* boilit.ts:259-264: the loop over all files, from index i on
RECURSIVE PushEach(_, _, _, _)
PushEach(all, i, ignoreRegexes, targetPath) ==
    IF i > Len(all) THEN <<>>
    ELSE LET rel == PathRelative(RepoDir, all[i])
         IN  (IF Len(ignoreRegexes) > 0 /\ Ignored(ignoreRegexes, rel)
              THEN <<>>
              ELSE <<<<all[i], PathJoin(targetPath, rel)>>>>)
             \o PushEach(all, i + 1, ignoreRegexes, targetPath)

\* boilit.ts:255-265: no include filter anywhere, every file is copied
CopyEverything(plan, cfg, files, targetPath) ==
    IF ~plan.ok THEN plan
    ELSE LET all == collectFiles(files, RepoDir, <<<<"*", "*", "/", "*">>, <<"*">>>>)
             ignoreRegexes == Regexes(DefaultIgnore(cfg))
         IN  IF ~AllCompiled(ignoreRegexes) THEN Plan(plan.toCopy, plan.added, FALSE)
             ELSE Plan(plan.toCopy \o PushEach(all, 1, ignoreRegexes, targetPath),
                       plan.added, plan.ok)

\* the plan whose default-level rule also applies the ignore patterns of the
\* first resolved module
CopyPlan_moduleIgnoreOnDefault(cfg, names, files, targetPath) ==
    LET defaultFiles == DefaultFiles(cfg)
        first == IF Len(names) > 0 /\ HasModule(cfg, names[1])
                 THEN OrEmpty(cfg.modules[names[1]].ignore)
                 ELSE <<>>
        afterDefault == IF NonEmpty(defaultFiles)
                        THEN addCopies(Plan(<<>>, {}, TRUE), files, Get(defaultFiles),
                                       DefaultIgnore(cfg) \o first, targetPath)
                        ELSE Plan(<<>>, {}, TRUE)
        afterModules == ModuleRules(afterDefault, cfg, names, 1, files, targetPath)
    IN  IF ~IsSome(defaultFiles) /\ ~AnyModuleHasFiles(cfg, names)
        THEN CopyEverything(afterModules, cfg, files, targetPath)
        ELSE afterModules

\* boilit.ts:213-265: toCopy as the copy loop finds it
CopyPlan(cfg, names, files, targetPath) ==
    LET defaultFiles == DefaultFiles(cfg)
        afterDefault == IF NonEmpty(defaultFiles)
                        THEN addCopies(Plan(<<>>, {}, TRUE), files, Get(defaultFiles),
                                       DefaultIgnore(cfg), targetPath)
                        ELSE Plan(<<>>, {}, TRUE)
        afterModules == ModuleRules(afterDefault, cfg, names, 1, files, targetPath)
    IN  IF ~IsSome(defaultFiles) /\ ~AnyModuleHasFiles(cfg, names)
        THEN CopyEverything(afterModules, cfg, files, targetPath)
        ELSE afterModules

\* boilit.ts:267-270: fs.copy with overwrite of the first n entries, in
\* order; the target holds one file per destination, the last one written
RECURSIVE CopyFiles(_, _, _)
CopyFiles(entries, n, dir) ==
    IF n = 0 THEN dir
    ELSE LET before == CopyFiles(entries, n - 1, dir)
             e == entries[n]
         IN  {w \in before : w[1] # e[2]} \cup {<<e[2], e[1]>>}

(***************************************************************************)
(* State.                                                                  *)
(***************************************************************************)
VARIABLES
    pc,              \* position of the run (the await it is suspended at)
    config,          \* contents of boilit.toml / this.config once loaded
    verdict,         \* result of validateConfig, then of validateRequestedModules
    modules,         \* the requested module names (argument of use / resolveDependencies)
    modulesToApply,  \* output of resolveDependencies
    repoFile,        \* what the clone holds at boilit.toml: "missing", "syntax", "schema" or "ok"
    tempDir,         \* TRUE while the workspace directory .boilit-temp exists
    mi,              \* index in modulesToApply of the module being validated / applied
    ri,              \* index in that module's refs of the ref being validated / applied
    shas,            \* revisions of the current range expansion
    si,              \* index in shas of the revision being applied
    fallback,        \* TRUE once control has left the try block of the current ref (boilit.ts:473-475)
    picking,         \* TRUE while a cherry-pick is stopped in conflict in the workspace
    invalidRefs,     \* (module, ref) pairs collected by validateModuleRefs
    prompts,         \* number of conflict prompts answered so far
    thrown,          \* the error as first thrown towards applyModuleRefs / use
    err,             \* the error in flight, then the value use() rejects with
    exitCode,        \* status returned by handleUse, -1 while it runs
    calls,           \* the external calls made so far, in order, with their results
    workspace,       \* relative paths of the files of the clone, in the order of the directory walk
    toCopy,          \* the copy plan of copyToTarget: <<src, dest>> entries in order
    target,          \* the target directory: <<dest, src>> for every file written, src being its content
    pattern,         \* a glob pattern handed to globToRegExp
    relPath,         \* a relative path tested against it
    matched,         \* result of the test, None before it
    remotes,         \* the git commands issued against a remote so far: command, module, ref, url
    queries,         \* the existence queries of the checkRefExists call at hand, with their outcomes
    refResult,       \* what that call returned, None while it runs
    uses,            \* the use() invocations running from one working directory: where each stands
    sharedDir        \* .boilit-temp of that directory: whether it exists, and whose clones it holds

runVars == <<repoFile, tempDir, mi, ri, shas, si, fallback, picking, invalidRefs, prompts,
             thrown, err, exitCode, calls>>
copyVars == <<workspace, toCopy, target>>
globVars == <<pattern, relPath, matched>>
refVars == <<remotes, queries, refResult>>
vars == <<pc, config, verdict, modules, modulesToApply, repoFile, tempDir, mi, ri, shas, si,
          fallback, picking, invalidRefs, prompts, thrown, err, exitCode, calls,
          workspace, toCopy, target, pattern, relPath, matched, remotes, queries, refResult,
          uses, sharedDir>>

(***************************************************************************)
(* Configurations explored.                                                *)
(***************************************************************************)
\* the values of an optional array field over the names S, up to n entries
OptArrays(S, n) == {None} \cup {Some(a) : a \in SeqsOf(S, 0, n)}

\* Object.keys of a configuration with 0..3 modules
KeyLists == {SubSeq(AllKeys, 1, n) : n \in 0..Len(AllKeys)}

\* the key lists of the configurations of one or two modules
RunKeyLists == {SubSeq(AllKeys, 1, n) : n \in 1..2}

\* the module tables over the keys ks whose modules declare dependencies
\* (possibly on names that are not modules) and nothing else

\* the files of the clone in the runs that do not vary them: the
\* version-control metadata and one tracked file

\* nothing planned or written yet, no pattern under test
CopyIdle == workspace = <<DotGit \o <<"/", "c">>, <<"a">>>> /\ toCopy = <<>> /\ target = {}
GlobIdle == pattern = <<>> /\ relPath = <<>> /\ matched = None

\* no command issued against a remote, no checkRefExists under way
RefIdle == remotes = <<>> /\ queries = <<>> /\ refResult = None

\* no second invocation: the directory is the one of the run at hand
UseIdle == uses = <<>> /\ sharedDir = [exists |-> FALSE, clones |-> {}]

\* the state of a BoilIt object and its surroundings before use() is called
RunIdle ==
    /\ repoFile = "ok"
    /\ tempDir = FALSE
    /\ mi = 1
    /\ ri = 1
    /\ shas = <<>>
    /\ si = 1
    /\ fallback = FALSE
    /\ picking = FALSE
    /\ invalidRefs = <<>>
    /\ prompts = 0
    /\ thrown = NoError
    /\ err = NoError
    /\ exitCode = -1
    /\ calls = <<>>

(***************************************************************************)
(* The planning functions on their own: validateConfig on a configuration  *)
(* as parsed, then resolveDependencies on a request, as loadConfig and     *)
(* resolveAndApplyModules call them.                                       *)
(***************************************************************************)
PlanInit ==
    /\ pc = "validateConfig"
    /\ \/ \E ks \in KeyLists : \E ms \in [Range(ks) -> {Module(d, None, None) : d \in OptArrays(Names, MaxDeps)}] :
             config = Config(ks, ms, None)
       \* four modules, of which the last is reached from the first along two paths
       \/ \E a \in {<<"B", "C">>, <<"C", "B">>} :
          \E b \in {<<"C">>, <<"D">>, <<"C", "D">>} :
             config = Config(<<"A", "B", "C", "D">>,
                             [k \in {"A", "B", "C", "D"} |->
                                 Module(IF k = "A" THEN Some(a)
                                        ELSE IF k = "B" THEN Some(b)
                                        ELSE IF k = "C" THEN Some(<<"D">>)
                                        ELSE None, None, None)],
                             None)
    /\ verdict = ConfigOk
    /\ modules = <<>>
    /\ modulesToApply = <<>>
    /\ RunIdle
    /\ CopyIdle
    /\ GlobIdle
    /\ RefIdle
    /\ UseIdle

\* boilit.ts:295: loadConfig calls validateConfig on the parsed configuration
ValidateConfig ==
    /\ pc = "validateConfig"
    /\ verdict' = validateConfig(config)
    /\ pc' = IF verdict'.kind = "ok" THEN "resolveDependencies" ELSE "rejected"
    /\ UNCHANGED <<config, modules, modulesToApply>>
    /\ UNCHANGED runVars
    /\ UNCHANGED <<copyVars, globVars, refVars, uses, sharedDir>>

\* boilit.ts:59-60: the request is checked, then resolved
ResolveDependencies ==
    /\ pc = "resolveDependencies"
    /\ \E requested \in SeqsOf(Names, 1, MaxReq) :
          /\ modules' = requested
          /\ verdict' = validateRequestedModules(config, requested)
          /\ IF verdict'.kind = "ok"
             THEN /\ modulesToApply' = resolveDependencies(config, requested)
                  /\ pc' = "resolved"
             ELSE /\ modulesToApply' = modulesToApply
                  /\ pc' = "rejected"
    /\ UNCHANGED config
    /\ UNCHANGED runVars
    /\ UNCHANGED <<copyVars, globVars, refVars, uses, sharedDir>>

\* resolveDependencies called on its own (boilit.ts:160-185), on names that
\* went through no validateRequestedModules
ResolveUnchecked ==
    /\ pc = "resolveDependencies"
    /\ \E requested \in SeqsOf(Names, 1, MaxReq) :
          /\ modules' = requested
          /\ modulesToApply' = resolveDependencies(config, requested)
    /\ pc' = "returned"
    /\ UNCHANGED <<config, verdict>>
    /\ UNCHANGED runVars
    /\ UNCHANGED <<copyVars, globVars, refVars, uses, sharedDir>>

PlanNext == ValidateConfig \/ ResolveDependencies \/ ResolveUnchecked

SpecPlan == PlanInit /\ [][PlanNext]_vars

(***************************************************************************)
(* validateConfig on its own, on configurations of one or two modules      *)
(* whose refs, files and dependencies are absent, empty or filled.         *)
(***************************************************************************)
ValidateInit ==
    /\ pc = "validateConfig"
    /\ \E ks \in RunKeyLists :
       \E ms \in [Range(ks) -> {Module(d, r, f) : d \in OptArrays(Names, MaxDeps),
                                                  r \in {None, Some(<<>>), Some(<<"main">>)},
                                                  f \in {None, Some(<<>>), Some(<<<<"*">>>>)}}] :
          config = Config(ks, ms, None)
    /\ verdict = ConfigOk
    /\ modules = <<>>
    /\ modulesToApply = <<>>
    /\ RunIdle
    /\ CopyIdle
    /\ GlobIdle
    /\ RefIdle
    /\ UseIdle

SpecValidate == ValidateInit /\ [][ValidateConfig]_vars

(***************************************************************************)
(* One run of handleUse -> BoilIt.use.                                     *)
(***************************************************************************)
\* ref names declared by the modules of the runs explored
RefNames == <<"main", "dev">>

\* exit codes of cherry-pick and cherry-pick --continue: success, content
\* conflict, any other failure
ExitCodes == {0, 1, 128}

\* the revision named FETCH_HEAD; the revisions of a range expansion are 1, 2, ...
FETCH_HEAD == 0


\* configurations of one or two modules, each with or without refs and with
\* or without a dependency on A (B on A is valid, A on itself is not)
RECURSIVE TotalRefs(_, _)
TotalRefs(cfg, i) ==
    IF i > Len(cfg.keys) THEN 0
    ELSE (IF IsSome(cfg.modules[cfg.keys[i]].refs)
          THEN Len(Get(cfg.modules[cfg.keys[i]].refs))
          ELSE 0) + TotalRefs(cfg, i + 1)

RunConfigs ==
    {cfg \in UNION {{Config(ks, ms, None) :
                        ms \in [Range(ks) ->
                                 {Module(d, r, None) :
                                     d \in {None, Some(<<"A">>)},
                                     r \in {None} \cup {Some(SubSeq(RefNames, 1, n)) :
                                                            n \in 0..Len(RefNames)}}]} :
                    ks \in RunKeyLists} :
        TotalRefs(cfg, 1) <= MaxTotalRefs}

\* this.repoUrl, the locator given to use() (boilit.ts:20)
RepoUrl == "R"

\* configurations that differ in where the refs come from: one module with
\* one or two refs under every combination of module.origin (absent, the
\* empty string, a locator) and `default` table (absent, or with an origin
\* that is empty or a locator), and two modules of which only the first
\* names an origin of its own
OriginConfigs ==
    {Config(<<"A">>, [k \in {"A"} |-> OriginModule(o, Some(SubSeq(RefNames, 1, n)))], d) :
        o \in {None, Some(""), Some("M")},
        d \in {None, Some(OriginDefault("")), Some(OriginDefault("D"))},
        n \in 1..Len(RefNames)}
    \cup {Config(<<"A", "B">>,
                 [k \in {"A", "B"} |-> IF k = "A" THEN OriginModule(Some("M"), Some(<<"main">>))
                                       ELSE OriginModule(None, Some(<<"main">>))],
                 Some(OriginDefault("D")))}

\* a || b for strings: b when a is undefined or empty
OrElse(a, b) == IF IsSome(a) /\ Get(a) # "" THEN Get(a) ELSE b

\* config.default?.origin
DefaultOrigin(cfg) == IF IsSome(cfg.default) THEN Some(Get(cfg.default).origin) ELSE None

\* originUrl of validateModuleRefs (boilit.ts:121)
ValidateOriginUrl(cfg, name) ==
    OrElse(cfg.modules[name].origin, OrElse(DefaultOrigin(cfg), RepoUrl))

\* url of checkRefExists (boilit.ts:145)
CheckUrl(cfg, originUrl) == OrElse(originUrl, OrElse(DefaultOrigin(cfg), RepoUrl))

\* the fetch always going to the cloned repository
PrepareOriginUrl_repoOnly(cfg, name) == RepoUrl

\* originUrl of prepareRepoForModule (boilit.ts:435)
PrepareOriginUrl(cfg, name) ==
    OrElse(cfg.modules[name].origin, OrElse(DefaultOrigin(cfg), RepoUrl))

\* a git command that names a remote: the command, the module and ref it
\* serves, the locator it is given
Remote(op, m, r, url) == [op |-> op, mod |-> m, ref |-> r, url |-> url]

\* the module lists given on the command line ("X" is no module of any configuration)

\* what stands for the configuration when boilit.toml cannot be read into one
NoConfig == Config(<<>>, <<>>, None)

Call(op, m, r, v, res) == [op |-> op, mod |-> m, ref |-> r, rev |-> v, res |-> res]

RunInit ==
    /\ pc = "setupTempDir"
    /\ \/ repoFile = "ok" /\ config \in RunConfigs
       \/ repoFile \in {"missing", "syntax", "schema"} /\ config = NoConfig
       \* a file whose `default` table has include patterns and no origin
       \/ /\ repoFile = "ok"
          /\ config = Config(<<"A">>, [k \in {"A"} |-> Module(None, Some(<<"main">>), None)],
                             Some([files |-> Some(<<<<"*">>>>), ignore |-> None]))
    /\ modules \in {<<>>, <<"B">>, <<"X">>}
    /\ verdict = ConfigOk
    /\ modulesToApply = <<>>
    /\ tempDir = FALSE
    /\ mi = 1
    /\ ri = 1
    /\ shas = <<>>
    /\ si = 1
    /\ fallback = FALSE
    /\ picking = FALSE
    /\ invalidRefs = <<>>
    /\ prompts = 0
    /\ thrown = NoError
    /\ err = NoError
    /\ exitCode = -1
    /\ calls = <<>>
    /\ CopyIdle
    /\ GlobIdle
    /\ RefIdle
    /\ UseIdle

\* `module.refs && module.refs.length > 0` (boilit.ts:431)
HasRefs(name) ==
    /\ IsSome(config.modules[name].refs)
    /\ Len(Get(config.modules[name].refs)) > 0

CurModule == modulesToApply[mi]
CurRefs == Get(config.modules[CurModule].refs)

\* boilit.ts:117-119: the first module at or after index m that has refs
RECURSIVE FirstWithRefs(_)
FirstWithRefs(m) ==
    IF m > Len(modulesToApply) THEN m
    ELSE IF HasRefs(modulesToApply[m]) THEN m
    ELSE FirstWithRefs(m + 1)

\* checkRefExists (boilit.ts:143-158): ls-remote, then rev-parse --verify
checkRefExists(remoteOk, localOk) ==
    IF remoteOk THEN TRUE ELSE IF localOk THEN TRUE ELSE FALSE

\* boilit.ts:65: where the loop over modulesToApply goes after module m
NextModulePc(m) == IF m + 1 > Len(modulesToApply) THEN "copyToTarget" ELSE "applyModuleRefs"

\* the revisions taken newest first
ShaAt_reversed(list, i) == list[Len(list) + 1 - i]

\* boilit.ts:467: `for (const sha of shas)`, the i-th revision applied
ShaAt(list, i) == list[i]

\* the revision the cherry-pick at hand applies
CurRev == IF fallback THEN FETCH_HEAD ELSE ShaAt(shas, si)

\* conflict prompts explored in the run at hand: one more than MaxPrompts
\* when the configuration declares a single ref, so that a conflict that
\* persists after "continue" is followed in the smallest runs
PromptBudget == IF TotalRefs(config, 1) = 1 THEN MaxPrompts + 1 ELSE MaxPrompts

\* an error leaves resolveAndApplyModules (or a step before it) for the
\* catch block of use()
RaiseToUse(e) ==
    /\ pc' = "useCatch"
    /\ err' = e
    /\ thrown' = e

\* control after a revision has been applied (boilit.ts:467-470, 437, 65);
\* shas and its index are local to the try block of one ref
Advance ==
    /\ IF ~fallback /\ si < Len(shas)
       THEN /\ pc' = "cherryPick"
            /\ si' = si + 1
            /\ UNCHANGED <<mi, ri, fallback, shas>>
       ELSE IF ri < Len(CurRefs)
       THEN /\ pc' = "fetchRef"
            /\ ri' = ri + 1
            /\ si' = 1
            /\ shas' = <<>>
            /\ fallback' = FALSE
            /\ UNCHANGED mi
       ELSE /\ pc' = NextModulePc(mi)
            /\ mi' = mi + 1
            /\ ri' = 1
            /\ si' = 1
            /\ shas' = <<>>
            /\ fallback' = FALSE
    /\ UNCHANGED <<err, thrown>>

\* an error thrown while a ref is processed: inside the try block
\* (boilit.ts:438-472) the empty catch swallows it and control falls through
\* to the fallback; in the fallback it leaves prepareRepoForModule
Throw(e) ==
    /\ IF ~fallback
       THEN /\ pc' = "fallbackFetch"
            /\ fallback' = TRUE
            /\ UNCHANGED <<err, thrown>>
       ELSE /\ pc' = "applyCatch"
            /\ err' = e
            /\ thrown' = e
            /\ UNCHANGED fallback
    /\ shas' = <<>>
    /\ si' = 1
    /\ UNCHANGED <<mi, ri>>

\* setupTempDir (boilit.ts:27, 590-593)
SetupTempDir ==
    /\ pc = "setupTempDir"
    /\ \E out \in {"ok", "ensureDirFailed", "emptyDirFailed"} :
          /\ tempDir' = (out # "ensureDirFailed")
          /\ calls' = Append(calls, Call("setupTempDir", 0, 0, 0, out))
          /\ IF out = "ok"
             THEN pc' = "cloneRepo" /\ UNCHANGED <<err, thrown>>
             ELSE RaiseToUse(MkError(out))
    /\ UNCHANGED <<config, verdict, modules, modulesToApply, repoFile, mi, ri, shas, si,
                   fallback, picking, invalidRefs, prompts, exitCode>>
    /\ UNCHANGED <<copyVars, globVars, refVars, uses, sharedDir>>

\* cloneRepo (boilit.ts:28, 409-427)
CloneRepo ==
    /\ pc = "cloneRepo"
    /\ \E ok \in BOOLEAN :
          /\ calls' = Append(calls, Call("clone", 0, 0, 0, IF ok THEN "ok" ELSE "fail"))
          /\ IF ok
             THEN pc' = "loadConfig" /\ UNCHANGED <<err, thrown>>
             ELSE RaiseToUse(MkError("Failed to clone repository"))
    /\ UNCHANGED <<config, verdict, modules, modulesToApply, repoFile, tempDir, mi, ri, shas, si,
                   fallback, picking, invalidRefs, prompts, exitCode>>
    /\ UNCHANGED <<copyVars, globVars, refVars, uses, sharedDir>>

\* a loadConfig that reports contents it cannot parse as a missing file
LoadConfig_noSyntaxTier ==
    /\ pc = "loadConfig"
    /\ IF repoFile = "missing"
       THEN RaiseToUse(MkError("boilit.toml not found in the repository")) /\ UNCHANGED verdict
       ELSE IF repoFile = "syntax"
       THEN RaiseToUse(MkError("boilit.toml not found in the repository")) /\ UNCHANGED verdict
       ELSE IF repoFile = "schema" \/ (IsSome(config.default) /\ ~DefaultSchema(Get(config.default)))
       THEN RaiseToUse(MkError("Invalid boilit.toml configuration")) /\ UNCHANGED verdict
       ELSE /\ verdict' = validateConfig(config)
            /\ IF verdict'.kind = "ok"
               THEN pc' = "resolveAndApplyModules" /\ UNCHANGED <<err, thrown>>
               ELSE RaiseToUse(MkError(verdict'.kind))
    /\ UNCHANGED <<config, modules, modulesToApply, repoFile, tempDir, mi, ri, shas, si,
                   fallback, picking, invalidRefs, prompts, exitCode, calls>>
    /\ UNCHANGED <<copyVars, globVars, refVars, uses, sharedDir>>

\* loadConfig (boilit.ts:29, 273-296)
LoadConfig ==
    /\ pc = "loadConfig"
    /\ IF repoFile = "missing"
       THEN RaiseToUse(MkError("boilit.toml not found in the repository")) /\ UNCHANGED verdict
       ELSE IF repoFile = "syntax"
       THEN RaiseToUse(MkError("Invalid TOML syntax in boilit.toml")) /\ UNCHANGED verdict
       ELSE IF repoFile = "schema" \/ (IsSome(config.default) /\ ~DefaultSchema(Get(config.default)))
       THEN RaiseToUse(MkError("Invalid boilit.toml configuration")) /\ UNCHANGED verdict
       ELSE /\ verdict' = validateConfig(config)
            /\ IF verdict'.kind = "ok"
               THEN pc' = "resolveAndApplyModules" /\ UNCHANGED <<err, thrown>>
               ELSE RaiseToUse(MkError(verdict'.kind))
    /\ UNCHANGED <<config, modules, modulesToApply, repoFile, tempDir, mi, ri, shas, si,
                   fallback, picking, invalidRefs, prompts, exitCode, calls>>
    /\ UNCHANGED <<copyVars, globVars, refVars, uses, sharedDir>>

\* the request handed on as it was given
RequestedModules_asGiven(cfg, mods) == mods

\* use (boilit.ts:31-33): an empty request stands for Object.keys(config.modules)
RequestedModules(cfg, mods) == IF Len(mods) = 0 THEN cfg.keys ELSE mods

\* use (boilit.ts:31-35) and the start of resolveAndApplyModules (boilit.ts:55-61)
ResolveModules ==
    /\ pc = "resolveAndApplyModules"
    /\ LET requested == RequestedModules(config, modules)
           check == validateRequestedModules(config, requested)
       IN  /\ modules' = requested
           /\ verdict' = check
           /\ IF check.kind = "ok"
              THEN /\ modulesToApply' = resolveDependencies(config, requested)
                   /\ pc' = "validateModuleRefs"
                   /\ UNCHANGED <<err, thrown>>
              ELSE /\ RaiseToUse(MkError(check.kind))
                   /\ UNCHANGED modulesToApply
    /\ UNCHANGED <<config, repoFile, tempDir, mi, ri, shas, si,
                   fallback, picking, invalidRefs, prompts, exitCode, calls>>
    /\ UNCHANGED <<copyVars, globVars, refVars, uses, sharedDir>>

\* validateModuleRefs, fetch --all (boilit.ts:108-113)
ValidateFetchAll ==
    /\ pc = "validateModuleRefs"
    /\ \E ok \in BOOLEAN :
          /\ calls' = Append(calls, Call("fetchAll", 0, 0, 0, IF ok THEN "ok" ELSE "fail"))
          /\ IF ok
             THEN /\ pc' = "checkRefExists"
                  /\ mi' = FirstWithRefs(1)
                  /\ ri' = 1
                  /\ UNCHANGED <<err, thrown>>
             ELSE /\ RaiseToUse(MkError("Failed to fetch repository references"))
                  /\ UNCHANGED <<mi, ri>>
    /\ UNCHANGED <<config, verdict, modules, modulesToApply, repoFile, tempDir, shas, si,
                   fallback, picking, invalidRefs, prompts, exitCode>>
    /\ UNCHANGED <<copyVars, globVars, refVars, uses, sharedDir>>

\* the loop leaving at the first ref that does not exist
CheckRefExists_failFast ==
    /\ pc = "checkRefExists"
    /\ mi <= Len(modulesToApply)
    /\ \E remoteOk, localOk \in BOOLEAN :
          LET isValidRef == checkRefExists(remoteOk, localOk)
          IN  /\ remoteOk => localOk
              /\ calls' = Append(calls, Call("checkRefExists", mi, ri, 0,
                                             IF isValidRef THEN "true" ELSE "false"))
              /\ invalidRefs' = IF isValidRef THEN invalidRefs
                                ELSE Append(invalidRefs, <<CurModule, CurRefs[ri]>>)
              /\ IF ~isValidRef
                 THEN ri' = 1 /\ mi' = Len(modulesToApply) + 1
                 ELSE IF ri < Len(CurRefs)
                 THEN ri' = ri + 1 /\ UNCHANGED mi
                 ELSE ri' = 1 /\ mi' = FirstWithRefs(mi + 1)
    /\ UNCHANGED <<pc, config, verdict, modules, modulesToApply, repoFile, tempDir, shas, si,
                   fallback, picking, prompts, thrown, err, exitCode>>
    /\ remotes' = Append(remotes, Remote("ls-remote", mi, ri,
                                         CheckUrl(config, Some(ValidateOriginUrl(config, CurModule)))))
    /\ UNCHANGED <<copyVars, globVars, queries, refResult, uses, sharedDir>>

\* validateModuleRefs, one ref of one module (boilit.ts:117-129)
CheckRefExists ==
    /\ pc = "checkRefExists"
    /\ mi <= Len(modulesToApply)
    \* the local query is made, and its result seen, only after the remote one failed
    /\ \E remoteOk, localOk \in BOOLEAN :
          LET isValidRef == checkRefExists(remoteOk, localOk)
          IN  /\ remoteOk => localOk
              /\ calls' = Append(calls, Call("checkRefExists", mi, ri, 0,
                                             IF isValidRef THEN "true" ELSE "false"))
              /\ invalidRefs' = IF isValidRef THEN invalidRefs
                                ELSE Append(invalidRefs, <<CurModule, CurRefs[ri]>>)
    /\ IF ri < Len(CurRefs)
       THEN ri' = ri + 1 /\ UNCHANGED mi
       ELSE ri' = 1 /\ mi' = FirstWithRefs(mi + 1)
    /\ UNCHANGED <<pc, config, verdict, modules, modulesToApply, repoFile, tempDir, shas, si,
                   fallback, picking, prompts, thrown, err, exitCode>>
    /\ remotes' = Append(remotes, Remote("ls-remote", mi, ri,
                                         CheckUrl(config, Some(ValidateOriginUrl(config, CurModule)))))
    /\ UNCHANGED <<copyVars, globVars, queries, refResult, uses, sharedDir>>

\* validateModuleRefs returning normally although refs are missing
ValidateRefsEnd_noThrow ==
    /\ pc = "checkRefExists"
    /\ mi > Len(modulesToApply)
    /\ pc' = NextModulePc(0)
    /\ mi' = 1
    /\ UNCHANGED <<err, thrown>>
    /\ UNCHANGED <<config, verdict, modules, modulesToApply, repoFile, tempDir, ri, shas, si,
                   fallback, picking, invalidRefs, prompts, exitCode, calls>>
    /\ UNCHANGED <<copyVars, globVars, refVars, uses, sharedDir>>

\* validateModuleRefs, after the loops (boilit.ts:131-140), and the entry
\* of the loop over modulesToApply (boilit.ts:65)
ValidateRefsEnd ==
    /\ pc = "checkRefExists"
    /\ mi > Len(modulesToApply)
    /\ IF Len(invalidRefs) > 0
       THEN RaiseToUse(MkError("Invalid references found")) /\ UNCHANGED mi
       ELSE /\ pc' = NextModulePc(0)
            /\ mi' = 1
            /\ UNCHANGED <<err, thrown>>
    /\ UNCHANGED <<config, verdict, modules, modulesToApply, repoFile, tempDir, ri, shas, si,
                   fallback, picking, invalidRefs, prompts, exitCode, calls>>
    /\ UNCHANGED <<copyVars, globVars, refVars, uses, sharedDir>>

\* prepareRepoForModule going on to fetch --all whatever the module's refs
ApplyModuleRefs_noGuard ==
    /\ pc = "applyModuleRefs"
    /\ \E ok \in BOOLEAN :
          /\ calls' = Append(calls, Call("fetchAll", mi, 0, 0, IF ok THEN "ok" ELSE "fail"))
          /\ IF ok
             THEN pc' = "fetchRef" /\ UNCHANGED <<err, thrown>>
             ELSE pc' = "applyCatch" /\ err' = ExecaError(128) /\ thrown' = ExecaError(128)
          /\ UNCHANGED mi
    /\ ri' = 1
    /\ si' = 1
    /\ fallback' = FALSE
    /\ UNCHANGED <<config, verdict, modules, modulesToApply, repoFile, tempDir, shas,
                   picking, invalidRefs, prompts, exitCode>>
    /\ UNCHANGED <<copyVars, globVars, refVars, uses, sharedDir>>

\* applyModuleRefs -> prepareRepoForModule up to fetch --all
\* (boilit.ts:65-70, 187-197, 429-433)
ApplyModuleRefs ==
    /\ pc = "applyModuleRefs"
    /\ IF ~HasRefs(CurModule)
       THEN /\ pc' = NextModulePc(mi)
            /\ mi' = mi + 1
            /\ UNCHANGED <<err, thrown, calls>>
       ELSE \E ok \in BOOLEAN :
               /\ calls' = Append(calls, Call("fetchAll", mi, 0, 0, IF ok THEN "ok" ELSE "fail"))
               /\ IF ok
                  THEN pc' = "fetchRef" /\ UNCHANGED <<err, thrown>>
                  ELSE pc' = "applyCatch" /\ err' = ExecaError(128) /\ thrown' = ExecaError(128)
               /\ UNCHANGED mi
    /\ ri' = 1
    /\ si' = 1
    /\ fallback' = FALSE
    /\ UNCHANGED <<config, verdict, modules, modulesToApply, repoFile, tempDir, shas,
                   picking, invalidRefs, prompts, exitCode>>
    /\ UNCHANGED <<copyVars, globVars, refVars, uses, sharedDir>>

\* prepareRepoForModule, fetch of the ref inside the try block (boilit.ts:440-442)
FetchRef ==
    /\ pc = "fetchRef"
    /\ \E ok \in BOOLEAN :
          /\ calls' = Append(calls, Call("fetch", mi, ri, 0, IF ok THEN "ok" ELSE "fail"))
          /\ IF ok
             THEN pc' = "revParse" /\ UNCHANGED <<mi, ri, shas, si, fallback, err, thrown>>
             ELSE Throw(ExecaError(128))
    /\ UNCHANGED <<config, verdict, modules, modulesToApply, repoFile, tempDir,
                   picking, invalidRefs, prompts, exitCode>>
    /\ remotes' = Append(remotes, Remote("fetch", mi, ri, PrepareOriginUrl(config, CurModule)))
    /\ UNCHANGED <<copyVars, globVars, queries, refResult, uses, sharedDir>>

\* prepareRepoForModule, rev-parse HEAD (boilit.ts:443-447)
RevParseHead ==
    /\ pc = "revParse"
    /\ \E ok \in BOOLEAN :
          IF ok
          THEN pc' = "mergeBase" /\ UNCHANGED <<mi, ri, shas, si, fallback, err, thrown>>
          ELSE Throw(ExecaError(128))
    /\ UNCHANGED <<config, verdict, modules, modulesToApply, repoFile, tempDir,
                   picking, invalidRefs, prompts, exitCode, calls>>
    /\ UNCHANGED <<copyVars, globVars, refVars, uses, sharedDir>>

\* prepareRepoForModule, merge-base (boilit.ts:448-452)
MergeBase ==
    /\ pc = "mergeBase"
    /\ \E ok \in BOOLEAN :
          IF ok
          THEN pc' = "revList" /\ UNCHANGED <<mi, ri, shas, si, fallback, err, thrown>>
          ELSE Throw(ExecaError(128))
    /\ UNCHANGED <<config, verdict, modules, modulesToApply, repoFile, tempDir,
                   picking, invalidRefs, prompts, exitCode, calls>>
    /\ UNCHANGED <<copyVars, globVars, refVars, uses, sharedDir>>

\* prepareRepoForModule, rev-list and the test of its output (boilit.ts:453-466)
RevList ==
    /\ pc = "revList"
    /\ \/ Throw(ExecaError(128))
       \/ \E n \in 0..MaxShas :
             /\ shas' = [i \in 1..n |-> i]
             /\ IF n > 0
                THEN /\ pc' = "cherryPick"
                     /\ si' = 1
                     /\ UNCHANGED fallback
                ELSE /\ pc' = "fallbackFetch"
                     /\ fallback' = TRUE
                     /\ UNCHANGED si
             /\ UNCHANGED <<mi, ri, err, thrown>>
    /\ UNCHANGED <<config, verdict, modules, modulesToApply, repoFile, tempDir,
                   picking, invalidRefs, prompts, exitCode, calls>>
    /\ UNCHANGED <<copyVars, globVars, refVars, uses, sharedDir>>

\* prepareRepoForModule, the fetch of the fallback (boilit.ts:474)
FallbackFetch ==
    /\ pc = "fallbackFetch"
    /\ \E ok \in BOOLEAN :
          /\ calls' = Append(calls, Call("fetch", mi, ri, 0, IF ok THEN "ok" ELSE "fail"))
          /\ IF ok
             THEN pc' = "cherryPick" /\ UNCHANGED <<mi, ri, shas, si, fallback, err, thrown>>
             ELSE Throw(ExecaError(128))
    /\ UNCHANGED <<config, verdict, modules, modulesToApply, repoFile, tempDir,
                   picking, invalidRefs, prompts, exitCode>>
    /\ remotes' = Append(remotes, Remote("fetch", mi, ri, PrepareOriginUrl(config, CurModule)))
    /\ UNCHANGED <<copyVars, globVars, queries, refResult, uses, sharedDir>>

\* a conflict answered with the continuation at once, the operator not asked
CherryPick_noPrompt ==
    /\ pc = "cherryPick"
    /\ \E code \in ExitCodes :
          /\ code = 1 => prompts < PromptBudget
          /\ calls' = Append(calls, Call("cherry-pick", mi, ri, CurRev,
                                         IF code = 0 THEN "ok" ELSE IF code = 1 THEN "conflict" ELSE "fatal"))
          /\ IF code = 0
             THEN Advance /\ UNCHANGED picking
             ELSE IF code = 1
             THEN /\ pc' = "continue"
                  /\ picking' = TRUE
                  /\ UNCHANGED <<mi, ri, shas, si, fallback, err, thrown>>
             ELSE Throw(ExecaError(code)) /\ UNCHANGED picking
    /\ UNCHANGED <<config, verdict, modules, modulesToApply, repoFile, tempDir,
                   invalidRefs, prompts, exitCode>>
    /\ UNCHANGED <<copyVars, globVars, refVars, uses, sharedDir>>

\* cherryPickWithConflictHandling (boilit.ts:479-493), called for a revision
\* of the expanded list (boilit.ts:468) or for FETCH_HEAD (boilit.ts:475)
CherryPick ==
    /\ pc = "cherryPick"
    /\ \E code \in ExitCodes :
          /\ code = 1 => prompts < PromptBudget
          /\ calls' = Append(calls, Call("cherry-pick", mi, ri, CurRev,
                                         IF code = 0 THEN "ok" ELSE IF code = 1 THEN "conflict" ELSE "fatal"))
          /\ IF code = 0
             THEN Advance /\ UNCHANGED picking
             ELSE IF code = 1
             THEN /\ pc' = "prompt"
                  /\ picking' = TRUE
                  /\ UNCHANGED <<mi, ri, shas, si, fallback, err, thrown>>
             ELSE Throw(ExecaError(code)) /\ UNCHANGED picking
    /\ UNCHANGED <<config, verdict, modules, modulesToApply, repoFile, tempDir,
                   invalidRefs, prompts, exitCode>>
    /\ UNCHANGED <<copyVars, globVars, refVars, uses, sharedDir>>

\* handleMergeConflict, the prompt and the operator's decision (boilit.ts:502-515)
Prompt ==
    /\ pc = "prompt"
    /\ \E action \in {"continue", "cancel"} :
          /\ calls' = Append(calls, Call("prompt", mi, ri, CurRev, action))
          /\ pc' = IF action = "cancel" THEN "abort" ELSE "continue"
    /\ prompts' = prompts + 1
    /\ UNCHANGED <<config, verdict, modules, modulesToApply, repoFile, tempDir, mi, ri, shas, si,
                   fallback, picking, invalidRefs, thrown, err, exitCode>>
    /\ UNCHANGED <<copyVars, globVars, refVars, uses, sharedDir>>

\* handleMergeConflict, "cancel": cherry-pick --abort, then the throw (boilit.ts:515-520)
AbortCherryPick ==
    /\ pc = "abort"
    /\ \E ok \in BOOLEAN :
          /\ calls' = Append(calls, Call("abort", mi, ri, CurRev, IF ok THEN "ok" ELSE "fail"))
          /\ picking' = IF ok THEN FALSE ELSE picking
          /\ Throw(IF ok THEN OperationCancelledError ELSE ExecaError(128))
    /\ UNCHANGED <<config, verdict, modules, modulesToApply, repoFile, tempDir,
                   invalidRefs, prompts, exitCode>>
    /\ UNCHANGED <<copyVars, globVars, refVars, uses, sharedDir>>

\* the continuation retried on a persisting conflict without a new decision
ContinueCherryPick_retry ==
    /\ pc = "continue"
    /\ \E code \in ExitCodes :
          /\ code = 1 => prompts < PromptBudget
          /\ calls' = Append(calls, Call("continue", mi, ri, CurRev,
                                         IF code = 0 THEN "ok" ELSE IF code = 1 THEN "conflict" ELSE "fatal"))
          /\ IF code = 0
             THEN Advance /\ picking' = FALSE
             ELSE IF code = 1
             THEN /\ pc' = "continue"
                  /\ UNCHANGED <<mi, ri, shas, si, fallback, err, thrown, picking>>
             ELSE Throw(ExecaError(code)) /\ UNCHANGED picking
    /\ UNCHANGED <<config, verdict, modules, modulesToApply, repoFile, tempDir,
                   invalidRefs, prompts, exitCode>>
    /\ UNCHANGED <<copyVars, globVars, refVars, uses, sharedDir>>

\* handleMergeConflict, "continue": cherry-pick --continue (boilit.ts:522-535)
ContinueCherryPick ==
    /\ pc = "continue"
    /\ \E code \in ExitCodes :
          /\ code = 1 => prompts < PromptBudget
          /\ calls' = Append(calls, Call("continue", mi, ri, CurRev,
                                         IF code = 0 THEN "ok" ELSE IF code = 1 THEN "conflict" ELSE "fatal"))
          /\ IF code = 0
             THEN Advance /\ picking' = FALSE
             ELSE IF code = 1
             THEN /\ pc' = "prompt"
                  /\ UNCHANGED <<mi, ri, shas, si, fallback, err, thrown, picking>>
             ELSE Throw(ExecaError(code)) /\ UNCHANGED picking
    /\ UNCHANGED <<config, verdict, modules, modulesToApply, repoFile, tempDir,
                   invalidRefs, prompts, exitCode>>
    /\ UNCHANGED <<copyVars, globVars, refVars, uses, sharedDir>>

\* applyModuleRefs, the catch block (boilit.ts:198-207): the error is rethrown
ApplyModuleRefsCatch ==
    /\ pc = "applyCatch"
    /\ pc' = "useCatch"
    /\ err' = err
    /\ UNCHANGED <<config, verdict, modules, modulesToApply, repoFile, tempDir, mi, ri, shas, si,
                   fallback, picking, invalidRefs, prompts, thrown, exitCode, calls>>
    /\ UNCHANGED <<copyVars, globVars, refVars, uses, sharedDir>>

\* copyToTarget (boilit.ts:73, 210-271), then spinner.succeed (boilit.ts:36).
\* The plan is computed from the workspace; a pattern that does not compile
\* makes it throw before anything is written.  The copy loop writes the
\* first n entries: all of them, or fewer when fs.ensureDir or fs.copy
\* fails (n = 0 covers the failure of fs.ensureDir(targetPath)).
CopyToTarget ==
    /\ pc = "copyToTarget"
    /\ \E plan \in {CopyPlan(config, modulesToApply, workspace, TargetPath)} :
           IF ~plan.ok
           THEN /\ calls' = Append(calls, Call("copy", 0, 0, 0, "fail"))
                /\ RaiseToUse(MkError("Invalid regular expression"))
                /\ UNCHANGED <<toCopy, target>>
           ELSE \E n \in 0..Len(plan.toCopy) :
                   \/ /\ n = Len(plan.toCopy)
                      /\ calls' = Append(calls, Call("copy", 0, 0, 0, "ok"))
                      /\ toCopy' = plan.toCopy
                      /\ target' = CopyFiles(plan.toCopy, n, target)
                      /\ pc' = "cleanup"
                      /\ UNCHANGED <<err, thrown>>
                   \/ /\ n < Len(plan.toCopy) \/ n = 0
                      /\ calls' = Append(calls, Call("copy", 0, 0, 0, "fail"))
                      /\ toCopy' = toCopy
                      /\ target' = CopyFiles(plan.toCopy, n, target)
                      /\ RaiseToUse(MkError("copy failed"))
    /\ UNCHANGED <<config, verdict, modules, modulesToApply, repoFile, tempDir, mi, ri, shas, si,
                   fallback, picking, invalidRefs, prompts, exitCode>>
    /\ UNCHANGED <<workspace, globVars, refVars, uses, sharedDir>>

\* the catch block of a use() that removes the workspace on success only
UseCatch_noFinally ==
    /\ pc = "useCatch"
    /\ pc' = "handleUse"
    /\ err' = err
    /\ UNCHANGED <<config, verdict, modules, modulesToApply, repoFile, tempDir, mi, ri, shas, si,
                   fallback, picking, invalidRefs, prompts, thrown, exitCode, calls>>
    /\ UNCHANGED <<copyVars, globVars, refVars, uses, sharedDir>>

\* use, the catch block (boilit.ts:37-45): the error is rethrown
UseCatch ==
    /\ pc = "useCatch"
    /\ pc' = "cleanup"
    /\ err' = err
    /\ UNCHANGED <<config, verdict, modules, modulesToApply, repoFile, tempDir, mi, ri, shas, si,
                   fallback, picking, invalidRefs, prompts, thrown, exitCode, calls>>
    /\ UNCHANGED <<copyVars, globVars, refVars, uses, sharedDir>>

\* use, the finally block: cleanup (boilit.ts:46-48, 595-597)
Cleanup ==
    /\ pc = "cleanup"
    /\ tempDir' = FALSE
    /\ calls' = Append(calls, Call("cleanup", 0, 0, 0, "ok"))
    /\ pc' = "handleUse"
    /\ UNCHANGED <<config, verdict, modules, modulesToApply, repoFile, mi, ri, shas, si,
                   fallback, picking, invalidRefs, prompts, thrown, err, exitCode>>
    /\ UNCHANGED <<copyVars, globVars, refVars, uses, sharedDir>>

\* isOperationCancelled (errors.ts): instanceof, or the name of the value
isOperationCancelled(e) == e.cls = "OperationCancelledError"

\* the status of a handleUse that treats every rejection as a failure
ExitStatus_noCancel(e) == IF e = NoError THEN 0 ELSE 1

\* handleUse (cli.ts:11-25): the status for the outcome of use()
ExitStatus(e) ==
    IF e = NoError THEN 0
    ELSE IF isOperationCancelled(e) THEN 0
    ELSE 1

\* handleUse returns (cli.ts:14-24)
HandleUse ==
    /\ pc = "handleUse"
    /\ exitCode' = ExitStatus(err)
    /\ pc' = "done"
    /\ UNCHANGED <<config, verdict, modules, modulesToApply, repoFile, tempDir, mi, ri, shas, si,
                   fallback, picking, invalidRefs, prompts, thrown, err, calls>>
    /\ UNCHANGED <<copyVars, globVars, refVars, uses, sharedDir>>

Next ==
    \/ SetupTempDir
    \/ CloneRepo
    \/ LoadConfig
    \/ ResolveModules
    \/ ValidateFetchAll
    \/ CheckRefExists
    \/ ValidateRefsEnd
    \/ ApplyModuleRefs
    \/ FetchRef
    \/ RevParseHead
    \/ MergeBase
    \/ RevList
    \/ FallbackFetch
    \/ CherryPick
    \/ Prompt
    \/ AbortCherryPick
    \/ ContinueCherryPick
    \/ ApplyModuleRefsCatch
    \/ CopyToTarget
    \/ UseCatch
    \/ Cleanup
    \/ HandleUse

Spec == RunInit /\ [][Next]_vars

(***************************************************************************)
(* validateModuleRefs and the loop over applyModuleRefs on their own       *)
(* (boilit.ts:63-71), entered on an instance whose configuration was       *)
(* assigned without passing loadConfig, as the unit tests of the           *)
(* repository do: a module's refs may then also be an empty array.  The    *)
(* configurations are those without origins and those that differ in the   *)
(* origins only.                                                           *)
(***************************************************************************)
PipelineInit ==
    /\ pc = "validateModuleRefs"
    /\ \/ \E ks \in RunKeyLists :
          \E ms \in [Range(ks) -> {Module(None, r, None) :
                                      r \in {None, Some(<<>>), Some(<<"main">>)}}] :
             config = Config(ks, ms, None)
       \/ config \in OriginConfigs
    /\ modules = config.keys
    /\ modulesToApply = config.keys
    /\ verdict = ConfigOk
    /\ repoFile = "ok"
    /\ tempDir = TRUE
    /\ mi = 1
    /\ ri = 1
    /\ shas = <<>>
    /\ si = 1
    /\ fallback = FALSE
    /\ picking = FALSE
    /\ invalidRefs = <<>>
    /\ prompts = 0
    /\ thrown = NoError
    /\ err = NoError
    /\ exitCode = -1
    /\ calls = <<>>
    /\ CopyIdle
    /\ GlobIdle
    /\ RefIdle
    /\ UseIdle

PipelineNext ==
    \/ ValidateFetchAll
    \/ CheckRefExists
    \/ ValidateRefsEnd
    \/ ApplyModuleRefs
    \/ FetchRef
    \/ RevParseHead
    \/ MergeBase
    \/ RevList
    \/ FallbackFetch
    \/ CherryPick
    \/ Prompt
    \/ AbortCherryPick
    \/ ContinueCherryPick
    \/ ApplyModuleRefsCatch

SpecPipeline == PipelineInit /\ [][PipelineNext]_vars

(***************************************************************************)
(* checkRefExists step by step (boilit.ts:143-158), as validateModuleRefs  *)
(* calls it for ref ri of module mi: the query against the remote, then,   *)
(* if that fails, the query against the clone.                             *)
(***************************************************************************)
\* an execa call of checkRefExists: the git command, the remote it names
\* ("" for the clone), the ref, whether it exited with 0
Query(cmd, url, ref, ok) == [cmd |-> cmd, url |-> url, ref |-> ref, ok |-> ok]

RefInit ==
    /\ pc = "lsRemote"
    /\ config \in OriginConfigs
    /\ modules = config.keys
    /\ modulesToApply = config.keys
    /\ verdict = ConfigOk
    /\ repoFile = "ok"
    /\ tempDir = TRUE
    /\ mi \in 1..Len(config.keys)
    /\ ri \in 1..Len(Get(config.modules[config.keys[mi]].refs))
    /\ shas = <<>>
    /\ si = 1
    /\ fallback = FALSE
    /\ picking = FALSE
    /\ invalidRefs = <<>>
    /\ prompts = 0
    /\ thrown = NoError
    /\ err = NoError
    /\ exitCode = -1
    /\ calls = <<>>
    /\ CopyIdle
    /\ GlobIdle
    /\ RefIdle
    /\ UseIdle

\* git ls-remote --exit-code url ref (boilit.ts:145-149)
LsRemote ==
    /\ pc = "lsRemote"
    /\ \E url \in {CheckUrl(config, Some(ValidateOriginUrl(config, CurModule)))} :
       \E ok \in BOOLEAN :
          /\ queries' = Append(queries, Query("ls-remote", url, CurRefs[ri], ok))
          /\ remotes' = Append(remotes, Remote("ls-remote", mi, ri, url))
          /\ IF ok
             THEN pc' = "returned" /\ refResult' = Some(TRUE)
             ELSE pc' = "revParseVerify" /\ UNCHANGED refResult
    /\ UNCHANGED <<config, verdict, modules, modulesToApply, runVars, copyVars, globVars, uses, sharedDir>>

\* the failed check of the clone thrown on to the caller
RevParseVerify_throws ==
    /\ pc = "revParseVerify"
    /\ pc' = "returned"
    /\ \E ok \in BOOLEAN :
          /\ queries' = Append(queries, Query("rev-parse", "", CurRefs[ri], ok))
          /\ IF ok
             THEN refResult' = Some(TRUE) /\ UNCHANGED <<thrown, err>>
             ELSE /\ thrown' = ExecaError(128)
                  /\ err' = ExecaError(128)
                  /\ UNCHANGED refResult
    /\ UNCHANGED <<config, verdict, modules, modulesToApply, repoFile, tempDir, mi, ri, shas, si,
                   fallback, picking, invalidRefs, prompts, exitCode, calls>>
    /\ UNCHANGED <<remotes, copyVars, globVars, uses, sharedDir>>

\* the catch block: git -C repoDir rev-parse --verify ref (boilit.ts:150-156)
RevParseVerify ==
    /\ pc = "revParseVerify"
    /\ pc' = "returned"
    /\ \E ok \in BOOLEAN :
          /\ queries' = Append(queries, Query("rev-parse", "", CurRefs[ri], ok))
          /\ refResult' = Some(ok)
    /\ UNCHANGED <<thrown, err>>
    /\ UNCHANGED <<config, verdict, modules, modulesToApply, repoFile, tempDir, mi, ri, shas, si,
                   fallback, picking, invalidRefs, prompts, exitCode, calls>>
    /\ UNCHANGED <<remotes, copyVars, globVars, uses, sharedDir>>

RefNext == LsRemote \/ RevParseVerify

SpecRef == RefInit /\ [][RefNext]_vars

(***************************************************************************)
(* Several use() invocations started from one working directory.  Every    *)
(* BoilIt object computes the same tempDir, path.join(process.cwd(),       *)
(* ".boilit-temp") (boilit.ts:9), and no step takes a lock.  Each          *)
(* invocation is followed through the steps that touch the directory:      *)
(* setupTempDir, cloneRepo, and cleanup in the finally block; the steps in *)
(* between read the clone and leave the directory as it is.                *)
(***************************************************************************)
ConcurrentInit ==
    /\ pc = "concurrent"
    /\ config = Config(<<>>, <<>>, None)
    /\ verdict = ConfigOk
    /\ modules = <<>>
    /\ modulesToApply = <<>>
    /\ RunIdle
    /\ CopyIdle
    /\ GlobIdle
    /\ RefIdle
    /\ uses = [i \in 1..MaxInvocations |-> "setupTempDir"]
    /\ sharedDir = [exists |-> FALSE, clones |-> {}]

\* setupTempDir of invocation i (boilit.ts:27, 590-593): ensureDir, emptyDir
ConcurrentSetupTempDir(i) ==
    /\ uses[i] = "setupTempDir"
    /\ sharedDir' = [exists |-> TRUE, clones |-> {}]
    /\ uses' = [uses EXCEPT ![i] = "cloneRepo"]
    /\ UNCHANGED <<pc, config, verdict, modules, modulesToApply, runVars, copyVars, globVars, refVars>>

\* cloneRepo of invocation i (boilit.ts:28, 409-427): git clone into
\* tempDir/repoName creates the directories it lacks; a failure goes to the
\* catch and finally blocks of use()
ConcurrentCloneRepo(i) ==
    /\ uses[i] = "cloneRepo"
    /\ \E ok \in BOOLEAN :
          IF ok
          THEN /\ sharedDir' = [exists |-> TRUE, clones |-> sharedDir.clones \cup {i}]
               /\ uses' = [uses EXCEPT ![i] = "loadConfig"]
          ELSE /\ sharedDir' = sharedDir
               /\ uses' = [uses EXCEPT ![i] = "cleanup"]
    /\ UNCHANGED <<pc, config, verdict, modules, modulesToApply, runVars, copyVars, globVars, refVars>>

\* loadConfig to copyToTarget of invocation i (boilit.ts:29-36), which read
\* and change the clone and end, with or without an error, in the finally block
ConcurrentRun(i) ==
    /\ uses[i] = "loadConfig"
    /\ uses' = [uses EXCEPT ![i] = "cleanup"]
    /\ UNCHANGED sharedDir
    /\ UNCHANGED <<pc, config, verdict, modules, modulesToApply, runVars, copyVars, globVars, refVars>>

\* cleanup of invocation i (boilit.ts:46-48, 595-597): fs.remove(tempDir)
ConcurrentCleanup(i) ==
    /\ uses[i] = "cleanup"
    /\ sharedDir' = [exists |-> FALSE, clones |-> {}]
    /\ uses' = [uses EXCEPT ![i] = "done"]
    /\ UNCHANGED <<pc, config, verdict, modules, modulesToApply, runVars, copyVars, globVars, refVars>>

SpecConcurrent ==
    /\ ConcurrentInit
    /\ [][\E i \in 1..MaxInvocations :
             \/ ConcurrentSetupTempDir(i)
             \/ ConcurrentCloneRepo(i)
             \/ ConcurrentRun(i)
             \/ ConcurrentCleanup(i)]_vars

(***************************************************************************)
(* copyToTarget on its own: a validated configuration whose modules        *)
(* select files, a resolved module list and a workspace, as                *)
(* resolveAndApplyModules hands them over (boilit.ts:73).                  *)
(***************************************************************************)
\* the files a clone may hold, in walk order: .git/c, a, b, d/a
FileUniverse == <<DotGit \o <<"/", "c">>, <<"a">>, <<"b">>, <<"d", "/", "a">>>>

\* Modules as validateConfig accepts them (`files` absent or non-empty:
\* "*", or "a" and "**/*"; `ignore` absent or "a"; `path` absent or "d");
\* the `default` table absent, or with any of its two lists absent or
\* present (`files` possibly empty, "*" or "d/*", `ignore` "d/*"); the
\* request a duplicate-free list over the keys; the workspace all of the
\* file universe, its first two files, or its files named a.
CopyInit ==
    /\ pc = "copyToTarget"
    /\ \E ks \in RunKeyLists :
       \E ms \in [Range(ks) -> {FileModule(f, i, p) :
                                   f \in {None, Some(<<<<"*">>>>),
                                          Some(<<<<"a">>, <<"*", "*", "/", "*">>>>)},
                                   i \in {None, Some(<<<<"a">>>>)},
                                   p \in {None, Some(<<"d">>)}}] :
       \E d \in {None} \cup {Some(Default(f, i)) :
                                f \in {None, Some(<<>>), Some(<<<<"*">>>>),
                                       Some(<<<<"d", "/", "*">>>>)},
                                i \in {None, Some(<<<<"d", "/", "*">>>>)}} :
          /\ config = Config(ks, ms, d)
          /\ \E l \in {r \in SeqsOf(Range(ks), 1, Len(ks)) :
                            \A i, j \in 1..Len(r) : i # j => r[i] # r[j]} :
                /\ modules = l
                /\ modulesToApply = resolveDependencies(config, l)
    /\ verdict = ConfigOk
    /\ RunIdle
    /\ workspace \in {FileUniverse, SubSeq(FileUniverse, 1, 2),
                       <<FileUniverse[2], FileUniverse[4]>>}
    /\ toCopy = <<>>
    /\ target = {}
    /\ GlobIdle
    /\ RefIdle
    /\ UseIdle

SpecCopy == CopyInit /\ [][CopyToTarget]_vars

(***************************************************************************)
(* The glob matcher on its own: one pattern is compiled by globToRegExp    *)
(* and the expression is tested on one relative path, as collectFiles and  *)
(* addCopies do for every pattern and file.                                *)
(***************************************************************************)
\* **/*.md and modules/*.md
MdAnywhere == <<"*", "*", "/", "*", ".", "m", "d">>
MdInModules == <<"m", "o", "d", "u", "l", "e", "s", "/", "*", ".", "m", "d">>

ReadmeMd == <<"r", "e", "a", "d", "m", "e", ".", "m", "d">>
ReadmeTxt == <<"r", "e", "a", "d", "m", "e", ".", "t", "x", "t">>
DocsReadmeMd == <<"d", "o", "c", "s", "/">> \o ReadmeMd
ModulesXMd == <<"m", "o", "d", "u", "l", "e", "s", "/", "x", ".", "m", "d">>
ModulesSubXMd == <<"m", "o", "d", "u", "l", "e", "s", "/", "s", "u", "b", "/", "x", ".", "m", "d">>

\* the patterns: those over star, separator, a letter and the dot, the two
\* examples, and those without star and separator over the characters that
\* are operators of a regular expression and a letter
GlobPatterns ==
    SeqsOf({"*", "/", "a", "."}, 1, MaxPatternLen)
    \cup {MdAnywhere, MdInModules}
    \cup SeqsOf({".", "+", "?", "(", ")", "[", "]", "{", "}", "|", "^", "$", "a"}, 1, MaxLiteralLen)

\* the paths: what path.relative(root, full).split(path.sep).join("/") can
\* give for a file below root (named segments, none of them "." or ".."),
\* the examples, and file names with operator characters
GlobPaths ==
    {p \in SeqsOf({"a", ".", "/"}, 1, MaxPathLen) :
        \A seg \in Range(Split(p)) : seg \notin {<<>>, <<".">>, <<".", ".">>}}
    \cup {ReadmeMd, ReadmeTxt, DocsReadmeMd, ModulesXMd, ModulesSubXMd}
    \cup SeqsOf({"a", "?", "+"}, 1, MaxLiteralLen)

GlobInit ==
    /\ pc = "globToRegExp"
    /\ config = NoConfig
    /\ verdict = ConfigOk
    /\ modules = <<>>
    /\ modulesToApply = <<>>
    /\ RunIdle
    /\ CopyIdle
    /\ RefIdle
    /\ UseIdle
    /\ pattern \in GlobPatterns
    /\ relPath \in GlobPaths
    /\ matched = None

\* regexes.some((r) => r.test(rel)) for one pattern (boilit.ts:544, 556):
\* the pattern is compiled and tested; a SyntaxError of the RegExp
\* constructor is thrown to the caller
GlobTest ==
    /\ pc = "globToRegExp"
    /\ pc' = "tested"
    /\ LET regex == globToRegExp(pattern)
       IN  IF regex.ok
           THEN /\ matched' = Some(RegExpTest(regex, relPath))
                /\ UNCHANGED <<thrown, err>>
           ELSE /\ matched' = None
                /\ thrown' = MkError("Invalid regular expression")
                /\ err' = thrown'
    /\ UNCHANGED <<config, verdict, modules, modulesToApply, repoFile, tempDir, mi, ri, shas, si,
                   fallback, picking, invalidRefs, prompts, exitCode, calls>>
    /\ UNCHANGED <<copyVars, pattern, relPath, refVars, uses, sharedDir>>

SpecGlob == GlobInit /\ [][GlobTest]_vars

(***************************************************************************)
(* Reading the record of external calls.                                   *)
(***************************************************************************)
\* the calls that fetch, apply a revision or write to the target
IsFetch(c) == c.op \in {"fetch", "fetchAll"}
IsApply(c) == c.op \in {"cherry-pick", "continue"}
IsCopy(c) == c.op = "copy"

SameRef(c, d) == c.mod = d.mod /\ c.ref = d.ref

\* The record only grows, and every prefix of it is the record of an
\* earlier state of the same run: a property of all pairs of calls (i, j),
\* i < j, holds in every reachable state if and only if it holds in every
\* reachable state for the pairs whose later call is the newest one.
Newest == calls[Len(calls)]

\* index of the last cherry-pick call in the record, 0 if none
RECURSIVE LastPickFrom(_)
LastPickFrom(i) ==
    IF i = 0 THEN 0
    ELSE IF calls[i].op = "cherry-pick" THEN i
    ELSE LastPickFrom(i - 1)
LastPick == LastPickFrom(Len(calls))

(***************************************************************************)
(* C1: once the operator has chosen "cancel" at a conflict prompt, the     *)
(* next call is cherry-pick --abort, no fetch, revision application or     *)
(* copy follows, and (the abort having succeeded) use() rejects with       *)
(* OperationCancelledError.                                                *)
(***************************************************************************)
C1_CancelEndsRun ==
    \A i \in 1..Len(calls) :
        (calls[i].op = "prompt" /\ calls[i].res = "cancel") =>
            /\ i < Len(calls) => calls[i + 1].op = "abort"
            /\ i < Len(calls) =>
                  ~IsFetch(Newest) /\ ~IsApply(Newest) /\ ~IsCopy(Newest)
            /\ (pc = "done" /\ calls[i + 1].res = "ok") => err = OperationCancelledError

(***************************************************************************)
(* C2: once a cherry-pick has failed with an exit code other than 1, the   *)
(* operator is not prompted, nothing more is fetched, applied or copied,   *)
(* and use() rejects with that error.                                      *)
(***************************************************************************)
C2_FatalApplyEndsRun ==
    \A i \in 1..Len(calls) :
        (calls[i].op = "cherry-pick" /\ calls[i].res = "fatal") =>
            /\ i < Len(calls) =>
                  /\ Newest.op # "prompt"
                  /\ ~IsFetch(Newest) /\ ~IsApply(Newest) /\ ~IsCopy(Newest)
            /\ pc = "done" => (err = ExecaError(128) /\ exitCode = 1)

C5_ApplicationOrder ==
    /\ \A i \in 1..(Len(calls) - 1) :
          (calls[i].op = "cherry-pick" /\ Newest.op = "cherry-pick") =>
              \/ calls[i].mod < Newest.mod
              \/ calls[i].mod = Newest.mod /\ calls[i].ref < Newest.ref
              \/ /\ SameRef(calls[i], Newest)
                 /\ calls[i].rev # FETCH_HEAD
                 /\ Newest.rev = FETCH_HEAD \/ calls[i].rev < Newest.rev
    /\ (Len(calls) > 0 /\ Newest.op \in {"prompt", "continue", "abort"}) =>
          /\ LastPick > 0
          /\ calls[LastPick].res = "conflict"
          /\ SameRef(calls[LastPick], Newest)
          /\ calls[LastPick].rev = Newest.rev
    /\ (Len(calls) > 1 /\ Newest.op = "cherry-pick") =>
          /\ calls[Len(calls) - 1].op # "prompt"
          /\ calls[Len(calls) - 1].res # "conflict"

\* revisions 1 and 2 of the first ref, the first after a resolved conflict,
\* then a revision of the second ref
C5_Witness ==
    \E i, j, k \in 1..Len(calls) :
        /\ i < j /\ j < k
        /\ calls[i] = Call("cherry-pick", 1, 1, 1, "conflict")
        /\ calls[j] = Call("cherry-pick", 1, 1, 2, "ok")
        /\ calls[k].op = "cherry-pick" /\ calls[k].mod = 1 /\ calls[k].ref = 2

(***************************************************************************)
(* C6: for one ref, the fetched tip is never cherry-picked after a         *)
(* revision of the expanded list of that ref has been cherry-picked.       *)
(***************************************************************************)
C6_ListOrTipNeverBoth ==
    \A i \in 1..(Len(calls) - 1) :
        (/\ calls[i].op = "cherry-pick"
         /\ Newest.op = "cherry-pick"
         /\ SameRef(calls[i], Newest)
         /\ calls[i].rev # FETCH_HEAD) => Newest.rev # FETCH_HEAD

(***************************************************************************)
(* The declared dependency graph, defined from the configuration alone.    *)
(***************************************************************************)
\* the modules a module names as dependencies
DirectDeps(cfg, n) ==
    IF HasModule(cfg, n) /\ IsSome(cfg.modules[n].dependencies)
    THEN Range(Get(cfg.modules[n].dependencies)) \cap DOMAIN cfg.modules
    ELSE {}

RECURSIVE DepClosure(_, _)
DepClosure(cfg, S) ==
    LET T == S \cup UNION {DirectDeps(cfg, n) : n \in S}
    IN  IF T = S THEN S ELSE DepClosure(cfg, T)

\* the modules n depends on, directly or transitively
TransDeps(cfg, n) == DepClosure(cfg, DirectDeps(cfg, n))

OnCycle(cfg, n) == n \in TransDeps(cfg, n)
HasCycle(cfg) == \E n \in DOMAIN cfg.modules : OnCycle(cfg, n)

NoDuplicates(s) == \A i, j \in 1..Len(s) : i # j => s[i] # s[j]

\* the depth-first post-order of the dependency graph below n, dependencies
\* in declared order, with repetitions
RECURSIVE PostOrder(_, _)
RECURSIVE PostOrderAll(_, _, _)
PostOrderAll(cfg, names, i) ==
    IF i > Len(names) THEN <<>>
    ELSE PostOrder(cfg, names[i]) \o PostOrderAll(cfg, names, i + 1)
PostOrder(cfg, n) ==
    IF ~HasModule(cfg, n) THEN <<>>
    ELSE (IF IsSome(cfg.modules[n].dependencies)
          THEN PostOrderAll(cfg, Get(cfg.modules[n].dependencies), 1)
          ELSE <<>>) \o <<n>>

\* s without the later occurrences of each element
RECURSIVE FirstOccurrences(_, _)
FirstOccurrences(s, i) ==
    IF i > Len(s) THEN <<>>
    ELSE (IF \E j \in 1..(i - 1) : s[j] = s[i] THEN <<>> ELSE <<s[i]>>) \o FirstOccurrences(s, i + 1)

\* the example of the specification: A (no deps), B (deps [A]), C (deps [A, B])
ExampleABC ==
    Config(AllKeys,
           [n \in Names |->
               Module(IF n = "A" THEN None ELSE IF n = "B" THEN Some(<<"A">>) ELSE Some(<<"A", "B">>),
                      None, None)],
           None)

(***************************************************************************)
(* C7: for a validated configuration and a request naming its modules, the *)
(* output of resolveDependencies has no duplicates, consists of exactly    *)
(* the requested names and their transitive dependencies, and lists every  *)
(* dependency before each of its dependents.                               *)
(***************************************************************************)
C7_ResolverOutput ==
    pc = "resolved" =>
        /\ NoDuplicates(modulesToApply)
        /\ Range(modulesToApply) =
              Range(modules) \cup UNION {TransDeps(config, r) : r \in Range(modules)}
        /\ \A i, j \in 1..Len(modulesToApply) :
              modulesToApply[j] \in TransDeps(config, modulesToApply[i]) => j < i

\* a diamond: C needs A and B, B needs A; B is requested before C
C7_Witness ==
    /\ pc = "resolved"
    /\ Len(config.keys) = 3
    /\ config.modules["C"].dependencies = Some(<<"B", "A">>)
    /\ config.modules["B"].dependencies = Some(<<"A">>)
    /\ modules = <<"C", "B">>
    /\ modulesToApply = <<"A", "B", "C">>

(***************************************************************************)
(* C8: the output of resolveDependencies is the depth-first post-order     *)
(* (requested names in input order, each module's dependencies in declared *)
(* order before the module) with repeated names dropped; resolving [C] in  *)
(* the A, B, C example yields [A, B, C].                                   *)
(***************************************************************************)
C8_ResolverPostOrder ==
    pc = "resolved" =>
        /\ modulesToApply = FirstOccurrences(PostOrderAll(config, modules, 1), 1)
        /\ (config = ExampleABC /\ modules = <<"C">>) => modulesToApply = <<"A", "B", "C">>

C8_Witness ==
    /\ pc = "resolved"
    /\ config = ExampleABC
    /\ modules = <<"C">>
    /\ modulesToApply = <<"A", "B", "C">>

(***************************************************************************)
(* C9: validateConfig throws for every configuration whose declared        *)
(* dependency graph has a cycle.                                           *)
(***************************************************************************)
C9_CyclicConfigRejected ==
    (pc # "validateConfig" /\ HasCycle(config)) => verdict.kind # "ok"

\* the cycle B -> C -> B is found although the first module validated, A,
\* has no dependencies
C9_Witness ==
    /\ pc = "rejected"
    /\ Len(config.keys) = 3
    /\ config.modules["A"].dependencies = None
    /\ config.modules["B"].dependencies = Some(<<"C">>)
    /\ config.modules["C"].dependencies = Some(<<"B">>)
    /\ verdict.kind = "circular"

(***************************************************************************)
(* C10: when validateConfig reports a circular dependency, every module    *)
(* named in the report lies on a dependency cycle and each consecutive     *)
(* pair of reported names is a declared dependency edge.                   *)
(***************************************************************************)
C10_ReportedCycleIsCycle ==
    verdict.kind = "circular" =>
        /\ \A i \in 1..Len(verdict.report) : OnCycle(config, verdict.report[i])
        /\ \A i \in 1..(Len(verdict.report) - 1) :
              verdict.report[i + 1] \in DirectDeps(config, verdict.report[i])

(***************************************************************************)
(* C11: validateRequestedModules raises nothing when every requested name  *)
(* is a module; otherwise it raises one error that lists every unknown     *)
(* requested name in request order, with all available module names, or    *)
(* with the "no modules are defined" message when there is no module.      *)
(***************************************************************************)
C11_AllUnknownNamesReported ==
    LET unknown == SelectSeq(modules, LAMBDA n : n \notin Range(config.keys))
    IN  /\ pc = "resolved" => (unknown = <<>> /\ verdict = ConfigOk)
        /\ (pc = "rejected" /\ modules # <<>>) =>
              /\ unknown # <<>>
              /\ verdict.report = unknown
              /\ verdict.available = config.keys
              /\ verdict.kind = IF config.keys = <<>> THEN "noModulesDefined" ELSE "invalidModules"

\* two unknown names, requested in the order C, B, against the one module A
C11_Witness ==
    /\ pc = "rejected"
    /\ config.keys = <<"A">>
    /\ modules = <<"C", "B">>
    /\ verdict.report = <<"C", "B">>
    /\ verdict.available = <<"A">>

\* the (module index, ref index) pairs of the resolved modules from index m
\* on, modules in resolved order and refs in declared order
RECURSIVE AllRefPairs(_)
AllRefPairs(m) ==
    IF m > Len(modulesToApply) THEN <<>>
    ELSE (IF HasRefs(modulesToApply[m])
          THEN [r \in 1..Len(Get(config.modules[modulesToApply[m]].refs)) |-> <<m, r>>]
          ELSE <<>>)
         \o AllRefPairs(m + 1)

ChecksMade == SelectSeq(calls, LAMBDA c : c.op = "checkRefExists")

\* validateModuleRefs has just returned or thrown after its loops
RefValidationEnded ==
    /\ pc \in {"applyModuleRefs", "copyToTarget", "useCatch"}
    /\ Len(calls) > 0
    /\ \/ Newest.op = "checkRefExists"
       \/ Newest = Call("fetchAll", 0, 0, 0, "ok")

(***************************************************************************)
(* C12: when validateModuleRefs ends after its loops, every ref of every   *)
(* resolved module has been checked once, in resolved-module order then    *)
(* declared ref order, whatever the earlier results; it throws exactly     *)
(* when some ref does not exist, and the pairs it reports are all the      *)
(* refs found missing, in that order.                                      *)
(***************************************************************************)
C12_AllInvalidRefsReported ==
    RefValidationEnded =>
        LET failed == SelectSeq(ChecksMade, LAMBDA c : c.res = "false")
        IN  /\ [i \in 1..Len(ChecksMade) |-> <<ChecksMade[i].mod, ChecksMade[i].ref>>] = AllRefPairs(1)
            /\ invalidRefs = [i \in 1..Len(failed) |->
                                 <<modulesToApply[failed[i].mod],
                                   Get(config.modules[modulesToApply[failed[i].mod]].refs)[failed[i].ref]>>]
            /\ (invalidRefs # <<>>) <=> (pc = "useCatch")
            /\ pc = "useCatch" => thrown = MkError("Invalid references found")

\* the first ref checked is missing, the second is checked all the same
\* and is missing too
C12_Witness ==
    /\ RefValidationEnded
    /\ pc = "useCatch"
    /\ Len(invalidRefs) = 2
    /\ ChecksMade[1].res = "false"
    /\ ChecksMade[2].res = "false"

(***************************************************************************)
(* C13: a fetch is issued only after the requested names were validated    *)
(* and found known, and the resolved list exists only then; a revision is  *)
(* applied only after every ref of every resolved module was checked and   *)
(* found to exist; and once either check has failed the run applies no     *)
(* revision and copies nothing.                                            *)
(***************************************************************************)
C13_PreflightBeforeMutation ==
    /\ modulesToApply # <<>> =>
          (verdict = ConfigOk /\ InvalidModules(config.keys, modules, 1) = <<>>)
    /\ Len(calls) > 0 =>
          /\ IsFetch(Newest) =>
                /\ pc \notin {"setupTempDir", "cloneRepo", "loadConfig", "resolveAndApplyModules"}
                /\ verdict = ConfigOk
                /\ InvalidModules(config.keys, modules, 1) = <<>>
          /\ (IsApply(Newest) \/ Newest.op = "fetch") =>
                /\ Len(ChecksMade) = Len(AllRefPairs(1))
                /\ \A i \in 1..Len(ChecksMade) : ChecksMade[i].res = "true"
          /\ (verdict.kind \in {"invalidModules", "noModulesDefined"} \/ invalidRefs # <<>>) =>
                /\ ~IsApply(Newest) /\ ~IsCopy(Newest) /\ Newest.op # "fetch"
                /\ verdict # ConfigOk => ~IsFetch(Newest)

\* a finished run whose second ref check failed: nothing was applied or copied
C13_Witness ==
    /\ pc = "done"
    /\ Len(ChecksMade) = 2
    /\ ChecksMade[1].res = "true"
    /\ ChecksMade[2].res = "false"
    /\ exitCode = 1
    /\ \A i \in 1..Len(calls) : ~IsApply(calls[i]) /\ ~IsCopy(calls[i])

\* the call before the newest one, when there is one
Previous == calls[Len(calls) - 1]

(***************************************************************************)
(* C14: in the conflict sub-machine a "continue" decision is followed by   *)
(* one cherry-pick --continue and nothing else, a continuation is issued   *)
(* only for such a decision, a continuation that reports a conflict leads  *)
(* back to the prompt, and the sub-machine is left only after a            *)
(* continuation that succeeded or failed otherwise, or after "cancel".     *)
(***************************************************************************)
C14_ConflictLoop ==
    /\ pc = "continue" <=> (Len(calls) > 0 /\ Newest.op = "prompt" /\ Newest.res = "continue")
    /\ pc = "abort" <=> (Len(calls) > 0 /\ Newest.op = "prompt" /\ Newest.res = "cancel")
    /\ pc = "prompt" <=>
          (Len(calls) > 0 /\ Newest.op \in {"cherry-pick", "continue"} /\ Newest.res = "conflict")
    /\ (Len(calls) > 1 /\ Newest.op = "continue") =>
          (Previous.op = "prompt" /\ Previous.res = "continue")
    /\ (Len(calls) > 1 /\ Previous.op = "prompt" /\ Previous.res = "continue") =>
          Newest.op = "continue"
    /\ (Len(calls) > 1 /\ Previous.op = "continue" /\ Previous.res = "conflict") =>
          Newest.op = "prompt"
    /\ (Len(calls) > 1 /\ Previous.op \in {"prompt", "continue"} /\ Newest.op \notin {"prompt", "continue"}) =>
          \/ Previous.op = "continue" /\ Previous.res \in {"ok", "fatal"}
          \/ Previous.op = "prompt" /\ Previous.res = "cancel" /\ Newest.op = "abort"

\* the conflict persists after the first "continue": the operator is asked
\* again, continues again, and the second continuation succeeds
C14_Witness ==
    /\ Len(calls) > 5
    /\ calls[Len(calls) - 4] = Call("cherry-pick", 1, 1, 1, "conflict")
    /\ calls[Len(calls) - 3] = Call("prompt", 1, 1, 1, "continue")
    /\ calls[Len(calls) - 2] = Call("continue", 1, 1, 1, "conflict")
    /\ Previous = Call("prompt", 1, 1, 1, "continue")
    /\ Newest = Call("continue", 1, 1, 1, "ok")

(***************************************************************************)
(* C15: once a cherry-pick --continue has failed with an exit code other   *)
(* than 1, the operator is not prompted again, nothing more is fetched,    *)
(* applied or copied, and use() rejects with that error.                   *)
(***************************************************************************)
C15_ContinueFailureFatal ==
    \A i \in 1..Len(calls) :
        (calls[i].op = "continue" /\ calls[i].res = "fatal") =>
            /\ i < Len(calls) => calls[i + 1].op # "prompt"
            /\ i < Len(calls) => (~IsFetch(Newest) /\ ~IsApply(Newest) /\ ~IsCopy(Newest))
            /\ pc = "done" => (err = ExecaError(128) /\ exitCode = 1)

\* copyToTarget has returned: the plan was built and every entry was copied
CopyDone == calls # <<>> /\ Newest.op = "copy" /\ Newest.res = "ok"

\* the path rel lies in the version-control metadata directory
InMetadataDir(rel) == Len(rel) > 5 /\ SubSeq(rel, 1, 5) = <<".", "g", "i", "t", "/">>

\* rel matches one of the default-level ignore patterns
DefaultIgnores(rel) ==
    \E i \in 1..Len(DefaultIgnore(config)) :
        RegExpTest(globToRegExp(DefaultIgnore(config)[i]), rel)

\* the entry that copies the workspace file rel to the same place below the
\* target root "."
RootEntry(rel) == <<RepoDir \o <<"/">> \o rel, rel>>

\* no include pattern is declared: the defaults have no `files` list, and no
\* resolved module has one
NoIncludesDeclared ==
    /\ DefaultFiles(config) = None
    /\ \A i \in 1..Len(modulesToApply) : config.modules[modulesToApply[i]].files = None

MatchesAny(patterns, rel) ==
    \E i \in 1..Len(patterns) : RegExpTest(globToRegExp(patterns[i]), rel)

\* what one selection rule contributes: the workspace files, in walk order
\* and outside .git, that match an include and no ignore pattern, each
\* destined for prefix followed by its workspace-relative path
RuleEntries(includes, ignores, prefix) ==
    LET sel == SelectSeq(workspace,
                         LAMBDA rel : /\ ~InMetadataDir(rel)
                                      /\ MatchesAny(includes, rel)
                                      /\ ~MatchesAny(ignores, rel))
    IN  [i \in 1..Len(sel) |-> <<RepoDir \o <<"/">> \o sel[i], prefix \o sel[i]>>]

\* the default-level rule: to the target root
DefaultRuleEntries == RuleEntries(OrEmpty(DefaultFiles(config)), DefaultIgnore(config), <<>>)

\* the rule of module m: below its path, if it has one
ModuleRuleEntries(m) ==
    LET mod == config.modules[m]
    IN  RuleEntries(OrEmpty(mod.files),
                    DefaultIgnore(config) \o OrEmpty(mod.ignore),
                    IF IsSome(mod.path) THEN Get(mod.path) \o <<"/">> ELSE <<>>)

\* the rules of the resolved modules from index i on, in resolver order
RECURSIVE ModuleEntriesFrom(_)
ModuleEntriesFrom(i) ==
    IF i > Len(modulesToApply) THEN <<>>
    ELSE ModuleRuleEntries(modulesToApply[i]) \o ModuleEntriesFrom(i + 1)

\* everything the rules produce, in rule order, repeats included
AllRuleEntries == DefaultRuleEntries \o ModuleEntriesFrom(1)

\* s without the later repeats of its elements
RECURSIVE WithoutRepeats(_)
WithoutRepeats(s) ==
    IF s = <<>> THEN <<>>
    ELSE LET front == WithoutRepeats(SubSeq(s, 1, Len(s) - 1))
         IN  IF s[Len(s)] \in Range(front) THEN front ELSE Append(front, s[Len(s)])

(***************************************************************************)
(* C17: with an include list declared by the defaults or by a resolved     *)
(* module, the copy plan is the entries of the default-level rule (match   *)
(* a default include, no default ignore, to the target root) followed by   *)
(* those of every resolved module with includes, in resolver order (match  *)
(* a module include, no default and no module ignore, to the target root   *)
(* joined with the module's path), each pair kept at its first place.      *)
(***************************************************************************)
C17_IncludeRules ==
    (CopyDone /\ ~NoIncludesDeclared) => toCopy = WithoutRepeats(AllRuleEntries)

\* the defaults include `*` and a resolved module includes `*` with path d:
\* a and b go to the target root, then to d/a and d/b
C17_Witness ==
    /\ CopyDone
    /\ NonEmpty(DefaultFiles(config))
    /\ \E i \in 1..Len(modulesToApply) : NonEmpty(config.modules[modulesToApply[i]].path)
    /\ toCopy = <<RootEntry(<<"a">>), RootEntry(<<"b">>),
                  <<RepoDir \o <<"/", "a">>, <<"d", "/", "a">>>>,
                  <<RepoDir \o <<"/", "b">>, <<"d", "/", "b">>>>>>

\* source and destination of a plan entry
Src(entry) == entry[1]
Dest(entry) == entry[2]

(***************************************************************************)
(* C18: no two entries of the final copy plan have the same destination    *)
(* path.                                                                   *)
(***************************************************************************)
C18_UniqueDestinations ==
    CopyDone => \A i, j \in 1..Len(toCopy) : Dest(toCopy[i]) = Dest(toCopy[j]) => i = j

\* the place where e first stands in s
FirstIndex(s, e) == CHOOSE i \in 1..Len(s) : s[i] = e /\ \A j \in 1..(i - 1) : s[j] # e

(***************************************************************************)
(* C19: no (source, destination) pair occurs twice in the copy plan: a     *)
(* pair that a later rule produces again is dropped, and the entries stand *)
(* in the order in which the rules first produced them.                    *)
(***************************************************************************)
C19_PairsOnceFirstSeen ==
    (CopyDone /\ ~NoIncludesDeclared) =>
        /\ \A i, j \in 1..Len(toCopy) : toCopy[i] = toCopy[j] => i = j
        /\ Range(toCopy) = Range(AllRuleEntries)
        /\ \A i, j \in 1..Len(toCopy) :
              i < j => FirstIndex(AllRuleEntries, toCopy[i]) < FirstIndex(AllRuleEntries, toCopy[j])

\* a later rule produces a pair again: the plan is shorter than the output
\* of the rules, and an entry produced after the repeat is in the plan
C19_Witness ==
    /\ CopyDone
    /\ ~NoIncludesDeclared
    /\ Len(toCopy) >= 2
    /\ Len(AllRuleEntries) > Len(toCopy)
    /\ \E k \in 2..Len(AllRuleEntries) :
          /\ AllRuleEntries[k] = AllRuleEntries[1]
          /\ \E n \in (k + 1)..Len(AllRuleEntries) : AllRuleEntries[n] = toCopy[Len(toCopy)]
                                                     /\ FirstIndex(AllRuleEntries, toCopy[Len(toCopy)]) = n

\* the pattern has "**/" at index i; "**" at index i; three stars in a row
DoubleStarSlashAt(pat, i) == i + 2 <= Len(pat) /\ pat[i] = "*" /\ pat[i + 1] = "*" /\ pat[i + 2] = "/"
DoubleStarAt(pat, i) == i + 1 <= Len(pat) /\ pat[i] = "*" /\ pat[i + 1] = "*"
TripleStar(pat) == \E i \in 1..(Len(pat) - 2) : pat[i] = "*" /\ pat[i + 1] = "*" /\ pat[i + 2] = "*"

\* The glob reading of a pattern: pat from index i on describes the whole of
\* str from index j on.  "**/" stands for zero or more directories, each
\* ended by its "/"; "**" otherwise for any text; "*" for text within one
\* segment; any other character for itself.
RECURSIVE GlobMatches(_, _, _, _)
GlobMatches(pat, i, str, j) ==
    IF i > Len(pat) THEN j = Len(str) + 1
    ELSE IF DoubleStarSlashAt(pat, i)
    THEN \E e \in j..(Len(str) + 1) :
            /\ e = j \/ str[e - 1] = "/"
            /\ GlobMatches(pat, i + 3, str, e)
    ELSE IF DoubleStarAt(pat, i)
    THEN \E e \in j..(Len(str) + 1) : GlobMatches(pat, i + 2, str, e)
    ELSE IF pat[i] = "*"
    THEN \E e \in j..(Len(str) + 1) :
            /\ "/" \notin {str[x] : x \in j..(e - 1)}
            /\ GlobMatches(pat, i + 1, str, e)
    ELSE j <= Len(str) /\ str[j] = pat[i] /\ GlobMatches(pat, i + 1, str, j + 1)

(***************************************************************************)
(* C20: the expression compiled from a glob pattern matches a relative     *)
(* path exactly when the pattern, read as a glob, describes the whole      *)
(* path: "*" stays within one segment, "**/" stands for zero or more       *)
(* directories, "**" elsewhere crosses segments.  So **/*.md matches       *)
(* docs/readme.md and readme.md but not readme.txt, and modules/*.md       *)
(* matches modules/x.md but not modules/sub/x.md.  Patterns with three     *)
(* stars in a row are left out: the reading does not define them; so are   *)
(* patterns with "?", which has no place in this reading.                  *)
(***************************************************************************)
C20_GlobSemantics ==
    (pc = "tested" /\ ~TripleStar(pattern) /\ "?" \notin Range(pattern)) =>
        /\ matched = Some(GlobMatches(pattern, 1, relPath, 1))
        /\ (pattern = MdAnywhere /\ relPath \in {DocsReadmeMd, ReadmeMd}) => matched = Some(TRUE)
        /\ (pattern = MdAnywhere /\ relPath = ReadmeTxt) => matched = Some(FALSE)
        /\ (pattern = MdInModules /\ relPath = ModulesXMd) => matched = Some(TRUE)
        /\ (pattern = MdInModules /\ relPath = ModulesSubXMd) => matched = Some(FALSE)

\* **/*.md tested on docs/readme.md
C20_Witness ==
    /\ pc = "tested"
    /\ pattern = MdAnywhere
    /\ relPath = DocsReadmeMd
    /\ matched = Some(TRUE)

(***************************************************************************)
(* C21: a pattern without "*" matches a path exactly when the path equals  *)
(* the pattern, whatever other characters the pattern is made of.          *)
(***************************************************************************)
C21_LiteralMatch ==
    (pc = "tested" /\ "*" \notin Range(pattern)) => matched = Some(relPath = pattern)

\* the clone succeeded, so use() went on to loadConfig; loadConfig has run
Cloned == Len(calls) >= 2 /\ calls[2] = Call("clone", 0, 0, 0, "ok")
LoadRan == Cloned /\ pc # "loadConfig"

\* the file has a `default` table that names no origin
DefaultsLackOrigin == IsSome(config.default) /\ "origin" \notin DOMAIN Get(config.default)

\* the tier of what the clone holds at boilit.toml: 1 no file, 2 contents
\* that are no TOML, 3 TOML that is no valid configuration (by schema or by
\* structure), 0 a valid configuration
LoadTier ==
    IF repoFile = "missing" THEN 1
    ELSE IF repoFile = "syntax" THEN 2
    ELSE IF repoFile = "schema" \/ DefaultsLackOrigin \/ validateConfig(config).kind # "ok" THEN 3
    ELSE 0

NotFoundMessage == "boilit.toml not found in the repository"
SyntaxMessage == "Invalid TOML syntax in boilit.toml"
StructureMessages ==
    {"Invalid boilit.toml configuration", "duplicate", "invalidDependency", "selfDependency",
     "circular", "emptyRefs", "emptyFiles", "emptyDependencies"}

\* the calls use() makes around loadConfig: workspace setup, clone, cleanup
OnlyWorkspaceCalls == \A i \in 1..Len(calls) : calls[i].op \in {"setupTempDir", "clone", "cleanup"}

\* the errors of loadConfig; the value thrown is one of them
LoadMessages == {NotFoundMessage, SyntaxMessage} \cup StructureMessages
LoadFailed == thrown.msg \in LoadMessages

\* the step in which loadConfig returns or throws
Loading == pc = "loadConfig" /\ pc' # "loadConfig"

\* loadConfig throws the error of the tier of its input, and none of these
\* errors on a valid input
LoadRaisesTier ==
    \A tier \in {LoadTier} :
        /\ tier = 1 => thrown' = MkError(NotFoundMessage)
        /\ tier = 2 => thrown' = MkError(SyntaxMessage)
        /\ tier = 3 => thrown'.cls = "Error" /\ thrown'.msg \in StructureMessages
        /\ tier = 0 => thrown'.msg \notin LoadMessages
        /\ tier # 0 => pc' = "useCatch"

\* no other step raises one of the errors of loadConfig or replaces one
LoadErrorKept ==
    (thrown.msg \in LoadMessages \/ thrown'.msg \in LoadMessages) => thrown' = thrown

(***************************************************************************)
(* C22: loadConfig fails in three tiers with three different errors: no    *)
(* boilit.toml, contents that do not parse, contents that parse but are    *)
(* no valid configuration.  Every input is in one tier or valid; the step  *)
(* of loadConfig throws that tier's error and no other step throws or      *)
(* replaces one; use() rejects with it, nothing is resolved and nothing is *)
(* applied; a valid input raises none of these errors.                     *)
(***************************************************************************)
C22_ThreeErrorTiers ==
    /\ [][/\ Loading => LoadRaisesTier
          /\ ~Loading => LoadErrorKept]_vars
    /\ [](LoadFailed =>
              /\ err = thrown
              /\ modulesToApply = <<>>
              /\ OnlyWorkspaceCalls
              /\ pc = "done" => exitCode = 1)
    /\ [](/\ NotFoundMessage # SyntaxMessage
          /\ {NotFoundMessage, SyntaxMessage} \cap StructureMessages = {})

\* a run on contents that are no TOML has ended
C22_Witness ==
    /\ LoadRan
    /\ repoFile = "syntax"
    /\ pc = "done"
    /\ thrown = MkError(SyntaxMessage)

\* validateConfig has returned or thrown
Validated == pc \in {"resolveDependencies", "rejected"}

\* the module named name has the array field present and empty
EmptyArray(name, field) ==
    LET a == config.modules[name][field] IN IsSome(a) /\ Len(Get(a)) = 0
ArrayFields == <<"refs", "files", "dependencies">>
HasEmptyArray(name) == \E k \in 1..3 : EmptyArray(name, ArrayFields[k])
SomeEmptyArray == \E i \in 1..Len(config.keys) : HasEmptyArray(config.keys[i])

\* the error kind that names the field
EmptyKind(field) ==
    IF field = "refs" THEN "emptyRefs"
    ELSE IF field = "files" THEN "emptyFiles"
    ELSE "emptyDependencies"

\* the error names a module and a field of it that is present and empty
NamesEmptyArray ==
    \E k \in 1..3 : verdict.kind = EmptyKind(ArrayFields[k])
                    /\ HasModule(config, verdict.module)
                    /\ EmptyArray(verdict.module, ArrayFields[k])

\* some dependency of some module is no module, or is the module itself,
\* or lies on a cycle
DependencyFault ==
    \E i \in 1..Len(config.keys) :
        LET d == config.modules[config.keys[i]].dependencies
        IN  IsSome(d) /\ \E k \in 1..Len(Get(d)) :
                            \/ Get(d)[k] \notin Range(config.keys)
                            \/ Get(d)[k] = config.keys[i]
                            \/ OnCycle(config, config.keys[i])

\* the first module, in declaration order, with an empty array, and the
\* first of refs, files, dependencies that is empty in it
FirstEmptyModule == config.keys[CHOOSE i \in 1..Len(config.keys) :
                                    /\ HasEmptyArray(config.keys[i])
                                    /\ \A j \in 1..(i - 1) : ~HasEmptyArray(config.keys[j])]
FirstEmptyField == ArrayFields[CHOOSE k \in 1..3 :
                                   /\ EmptyArray(FirstEmptyModule, ArrayFields[k])
                                   /\ \A j \in 1..(k - 1) : ~EmptyArray(FirstEmptyModule, ArrayFields[j])]

(***************************************************************************)
(* C23 as stated: every configuration with a module whose refs, files or   *)
(* dependencies array is present and empty is rejected with an error that  *)
(* names such a module and that field.                                     *)
(***************************************************************************)
C23_EmptyArrayNamed ==
    (Validated /\ SomeEmptyArray) => NamesEmptyArray

(***************************************************************************)
(* C23 as amended: every such configuration is rejected; when no module    *)
(* has a dependency that is missing, itself or on a cycle, the error names *)
(* the first module in declaration order with an empty array and the first *)
(* of refs, files, dependencies that is empty in it.                       *)
(***************************************************************************)
C23_EmptyArrayRejected ==
    (Validated /\ SomeEmptyArray) =>
        /\ verdict.kind # "ok"
        /\ pc = "rejected"
        /\ ~DependencyFault =>
              /\ verdict.kind = EmptyKind(FirstEmptyField)
              /\ verdict.module = FirstEmptyModule

\* module A is valid, module B has empty files and empty dependencies: the
\* error names B and files
C23_Witness ==
    /\ pc = "rejected"
    /\ config.keys = <<"A", "B">>
    /\ ~HasEmptyArray("A")
    /\ EmptyArray("B", "files")
    /\ EmptyArray("B", "dependencies")
    /\ verdict.kind = "emptyFiles"
    /\ verdict.module = "B"

\* the dependencies of the module named name, none when it declares none
DepsOf(name) == OrEmpty(config.modules[name].dependencies)

\* some module names a dependency that is no module of the configuration
MissingDependency ==
    \E i \in 1..Len(config.keys) : \E k \in 1..Len(DepsOf(config.keys[i])) :
        DepsOf(config.keys[i])[k] \notin Range(config.keys)

\* some module lists itself as a dependency
SelfDependency ==
    \E i \in 1..Len(config.keys) : \E k \in 1..Len(DepsOf(config.keys[i])) :
        DepsOf(config.keys[i])[k] = config.keys[i]

(***************************************************************************)
(* C24: validateConfig throws for every configuration in which a module    *)
(* names a dependency that is no module, and for every configuration in    *)
(* which a module lists itself as a dependency.                            *)
(***************************************************************************)
C24_BadDependencyRejected ==
    (pc # "validateConfig" /\ (MissingDependency \/ SelfDependency)) =>
        /\ pc = "rejected"
        /\ verdict.kind \in StructureMessages

\* two modules, the second depends on a name that is no module
C24_Witness ==
    /\ pc = "rejected"
    /\ config.keys = <<"A", "B">>
    /\ DepsOf("A") = <<>>
    /\ DepsOf("B") = <<"A", "C">>
    /\ verdict = ConfigError("invalidDependency", "B", <<"C">>)

EmptyKinds == {"emptyRefs", "emptyFiles", "emptyDependencies"}

\* the class of error of the earliest check that the configuration fails,
\* the checks taken in the order: dependency exists, no self-dependency,
\* acyclic, arrays not empty
EarliestFailedCheck ==
    IF MissingDependency THEN {"invalidDependency"}
    ELSE IF SelfDependency THEN {"selfDependency"}
    ELSE IF HasCycle(config) THEN {"circular"}
    ELSE IF SomeEmptyArray THEN EmptyKinds
    ELSE {"ok"}

(***************************************************************************)
(* C25: the error of validateConfig is that of the earliest failed check   *)
(* in the order dependency exists, no self-dependency, acyclic, arrays not *)
(* empty, wherever in the configuration the checks fail; a module that     *)
(* lists itself is reported as a self-dependency, never as a cycle.        *)
(***************************************************************************)
C25_ChecksInOrder ==
    Validated =>
        /\ verdict.kind \in EarliestFailedCheck
        /\ SelfDependency => verdict.kind # "circular"

\* boilit.toml is missing or unreadable, or some module of the configuration,
\* requested or not, breaks a rule of the structure
BrokenConfig ==
    \/ repoFile # "ok"
    \/ DefaultsLackOrigin
    \/ MissingDependency
    \/ SelfDependency
    \/ SomeEmptyArray
    \/ HasCycle(config)

(***************************************************************************)
(* C26: the configuration is checked as a whole when it is loaded, for     *)
(* every module and before anything is resolved: on a configuration that   *)
(* is missing, unreadable or invalid in any module, requested or not, the  *)
(* step of loadConfig throws one of its errors, and a run that has not     *)
(* loaded the configuration or in which loadConfig threw makes no call but *)
(* workspace setup, clone and cleanup (no fetch, no ref query, no revision *)
(* applied), writes nothing to the target, resolves nothing and ends as a  *)
(* failure; the configuration itself does not change during the run.       *)
(***************************************************************************)
C26_BrokenConfigFailsEarly ==
    /\ [][/\ config' = config /\ repoFile' = repoFile
          /\ (Loading /\ BrokenConfig) => (pc' = "useCatch" /\ thrown'.msg \in LoadMessages)
          /\ LoadFailed => thrown' = thrown]_vars
    /\ []((~LoadRan \/ LoadFailed) =>
              /\ OnlyWorkspaceCalls
              /\ target = {}
              /\ toCopy = <<>>
              /\ modulesToApply = <<>>
              /\ pc \notin {"resolveAndApplyModules", "validateModuleRefs", "copyToTarget"}
              /\ pc = "done" => (err # NoError /\ exitCode = 1))

\* module A has an empty refs array, module B is valid and does not depend
\* on A; only B is requested; the run has ended
C26_Witness ==
    /\ pc = "done"
    /\ config.keys = <<"A", "B">>
    /\ config.modules["A"].refs = Some(<<>>)
    /\ config.modules["B"] = Module(None, Some(<<"main">>), None)
    /\ modules = <<"B">>
    /\ thrown = MkError("emptyRefs")
    /\ Len(calls) = 3

(***************************************************************************)
(* C27                                                                     *)
(***************************************************************************)
\* an origin counts as set when it is present and not the empty string
OriginSet(o) == IsSome(o) /\ Get(o) # ""

\* the remote the claim assigns to a module: its own origin, else the default
\* origin, else the locator given to use()
EffectiveRemote(name) ==
    IF OriginSet(config.modules[name].origin) THEN Get(config.modules[name].origin)
    ELSE IF IsSome(config.default) /\ Get(config.default).origin # ""
    THEN Get(config.default).origin
    ELSE RepoUrl

\* the existence queries made for the same module and ref before entry i
ValidatedAt(i) ==
    {j \in 1..(i - 1) : /\ remotes[j].op = "ls-remote"
                        /\ remotes[j].mod = remotes[i].mod
                        /\ remotes[j].ref = remotes[i].ref}

\* C27: every command that names a remote for a module is given the module's
\* effective remote (its own origin if set, else the default origin if set,
\* else the locator passed to use()), and every fetch of a ref goes to the
\* very remote the ref was validated against in pre-flight.
C27_EffectiveRemote ==
    \A i \in DOMAIN remotes :
        /\ remotes[i].url = EffectiveRemote(modulesToApply[remotes[i].mod])
        /\ remotes[i].op = "fetch" =>
              /\ ValidatedAt(i) # {}
              /\ \A j \in ValidatedAt(i) : remotes[j].url = remotes[i].url

\* refs of a module with its own origin and of a module under the default
\* origin have both been validated and fetched
C27_Witness ==
    /\ \E i, j \in DOMAIN remotes :
          /\ remotes[i].op = "fetch" /\ remotes[i].url = "M"
          /\ remotes[j].op = "fetch" /\ remotes[j].url = "D"
          /\ config.modules[modulesToApply[remotes[j].mod]].origin = None

(***************************************************************************)
(* C28                                                                     *)
(***************************************************************************)
\* the step of use() that turns the request into the list of modules to apply
Resolving == pc = "resolveAndApplyModules" /\ pc' = "validateModuleRefs"

\* the modules of the list for which the pipeline fetched a ref
FetchedModules == {modulesToApply[calls[i].mod] : i \in {k \in DOMAIN calls : calls[k].op = "fetch"}}

\* the modules of the list that have refs to apply
ModulesWithRefs == {n \in Range(modulesToApply) : HasRefs(n)}

\* the run ended without an error
Succeeded == pc = "done" /\ err = NoError

ResolvesRequest ==
    Resolving =>
        /\ modules = <<>> =>
              /\ modules' = config.keys
              /\ Range(modulesToApply') = DOMAIN config.modules
        /\ modules # <<>> =>
              /\ modules' = modules
              /\ Range(modulesToApply') =
                    Range(modules) \cup UNION {TransDeps(config, r) : r \in Range(modules)}
        /\ \A i, j \in 1..Len(modulesToApply') :
              modulesToApply'[j] \in TransDeps(config, modulesToApply'[i]) => j < i

KeepsResolution == pc # "resolveAndApplyModules" => modulesToApply' = modulesToApply

\* C28: an empty request is replaced by all module names of the configuration
\* and every configured module is resolved; a non-empty request resolves to
\* the requested modules and their transitive dependencies only; in both
\* cases dependencies come before dependents, the resolved list is the one
\* applied, and a run that succeeds has applied every module of it.
C28_EmptyRequestMeansAll ==
    /\ [][ResolvesRequest /\ KeepsResolution]_vars
    /\ [](Succeeded => FetchedModules = ModulesWithRefs)

\* a run on an empty request (no request names both modules) that applied A
\* and then B, which depends on A
C28_Witness ==
    /\ Succeeded
    /\ modules = <<"A", "B">>
    /\ modulesToApply = <<"A", "B">>
    /\ config.modules["B"].dependencies = Some(<<"A">>)
    /\ FetchedModules = {"A", "B"}

(***************************************************************************)
(* C29                                                                     *)
(***************************************************************************)
\* the refs of a module as the configuration gives them, none when absent
DeclaredRefs(name) ==
    IF config.modules[name].refs = None THEN <<>> ELSE Get(config.modules[name].refs)

\* the modules of the list that have no ref: refs absent or an empty array
RefLess == {m \in 1..Len(modulesToApply) : DeclaredRefs(modulesToApply[m]) = <<>>}

\* every module of the list has been through validateModuleRefs and applyModuleRefs
PipelineOver == pc = "copyToTarget"

\* C29: for a module whose refs are absent or empty no existence check is
\* made and no version-control call is issued (no fetch --all of
\* prepareRepoForModule, no fetch of a ref, no cherry-pick, continuation or
\* abort), and no command names a remote for it: every call and every remote
\* command made for a module is made for a module with at least one ref.
C29_NoRefsNoCalls ==
    /\ \A i \in DOMAIN calls : calls[i].mod \notin RefLess
    /\ \A i \in DOMAIN remotes : remotes[i].mod \notin RefLess

\* the pipeline went over a module with an empty refs array and then applied
\* the ref of a second module
C29_Witness ==
    /\ PipelineOver
    /\ config.modules[modulesToApply[1]].refs = Some(<<>>)
    /\ \E i \in DOMAIN calls : calls[i].op = "cherry-pick" /\ calls[i].mod = 2 /\ calls[i].res = "ok"
    /\ RefLess = {1}

(***************************************************************************)
(* C30                                                                     *)
(***************************************************************************)
\* checkRefExists has returned or thrown
RefChecked == pc = "returned"

\* the queries of a given command made so far
QueriesOf(cmd) == {i \in DOMAIN queries : queries[i].cmd = cmd}

RemoteSucceeded == \E i \in QueriesOf("ls-remote") : queries[i].ok
RemoteFailed == \E i \in QueriesOf("ls-remote") : ~queries[i].ok
LocalSucceeded == \E i \in QueriesOf("rev-parse") : queries[i].ok

\* C30: checkRefExists returns true exactly when the remote query succeeded
\* or, the remote query having failed, the local check succeeded, and false
\* otherwise; the local check is made at most once and only after a remote
\* query that failed; no failure of a query is raised as an error.
C30_RefExistsRemoteThenLocal ==
    /\ thrown = NoError /\ err = NoError
    /\ \A i \in QueriesOf("rev-parse") :
          /\ i > 1
          /\ queries[i - 1].cmd = "ls-remote"
          /\ ~queries[i - 1].ok
    /\ Cardinality(QueriesOf("rev-parse")) <= 1
    /\ RefChecked =>
          /\ refResult \in {Some(TRUE), Some(FALSE)}
          /\ Get(refResult) <=> (RemoteSucceeded \/ (RemoteFailed /\ LocalSucceeded))
    /\ ~RefChecked => refResult = None

\* the ref is not on the remote but in the clone: true after two queries
C30_Witness ==
    /\ RefChecked
    /\ RemoteFailed
    /\ LocalSucceeded
    /\ refResult = Some(TRUE)

(***************************************************************************)
(* C31                                                                     *)
(***************************************************************************)

\* the requested names that are modules of the configuration, in request order
RECURSIVE KnownFrom(_)
KnownFrom(i) ==
    IF i > Len(modules) THEN <<>>
    ELSE (IF modules[i] \in Range(config.keys) THEN <<modules[i]>> ELSE <<>>) \o KnownFrom(i + 1)

\* C31: a requested name that is no module of the configuration adds nothing
\* to the output of resolveDependencies and raises no error: the output holds
\* only modules, every requested module and its dependencies are in it, it
\* is the output for the request without the unknown names, and it is empty
\* when no requested name is a module or no configuration is loaded.
C31_UnknownNamesSkipped ==
    pc = "returned" =>
        /\ thrown = NoError /\ err = NoError /\ verdict = ConfigOk
        /\ Range(modulesToApply) \subseteq Range(config.keys)
        /\ Range(modulesToApply) =
              Range(KnownFrom(1)) \cup UNION {TransDeps(config, r) : r \in Range(KnownFrom(1))}
        /\ modulesToApply = resolveDependencies(config, KnownFrom(1))
        /\ KnownFrom(1) = <<>> => modulesToApply = <<>>
        /\ config.keys = <<>> => modulesToApply = <<>>

\* the request names C, which is no module, and then B, which needs A
C31_Witness ==
    /\ pc = "returned"
    /\ config.keys = <<"A", "B">>
    /\ modules = <<"C", "B">>
    /\ modulesToApply = <<"A", "B">>

(***************************************************************************)
(* C32                                                                     *)
(***************************************************************************)
\* the workspace-relative path of the source of a plan entry
RelOf(entry) == PathRelative(RepoDir, Src(entry))

\* module m declares ignore patterns and one of them matches rel
ModuleIgnores(m, rel) == MatchesAny(OrEmpty(config.modules[m].ignore), rel)

\* the entry of rel that the rule of module m produces, its own ignore
\* patterns left aside
ModuleEntry(m, rel) ==
    <<RepoDir \o <<"/">> \o rel,
      (IF IsSome(config.modules[m].path) THEN Get(config.modules[m].path) \o <<"/">> ELSE <<>>)
          \o rel>>

\* m is a resolved module with an include list that selects rel
ModuleSelects(m, rel) ==
    /\ m \in Range(modulesToApply)
    /\ ~InMetadataDir(rel)
    /\ MatchesAny(OrEmpty(config.modules[m].files), rel)

\* the default-level include rule selects rel
DefaultSelects(rel) ==
    ~InMetadataDir(rel) /\ MatchesAny(OrEmpty(DefaultFiles(config)), rel)

\* C32: the ignore patterns of a module take files out of the entries of
\* that module's own rule only: a file selected by the default-level rule,
\* or by another module's rule whose own ignore patterns do not match it,
\* is in the plan whatever the module ignores, and a plan entry whose file
\* a module ignores comes from another rule; a file matched by a
\* default-level ignore pattern is in the plan under no rule.
C32_ModuleIgnoreIsLocal ==
    CopyDone =>
        /\ \A i \in 1..Len(toCopy) : ~DefaultIgnores(RelOf(toCopy[i]))
        /\ \A k \in 1..Len(workspace) :
              \A rel \in {workspace[k]} :
                 ~DefaultIgnores(rel) =>
                    /\ DefaultSelects(rel) => RootEntry(rel) \in Range(toCopy)
                    /\ \A m \in Range(modulesToApply) :
                          (ModuleSelects(m, rel) /\ ~ModuleIgnores(m, rel))
                              => ModuleEntry(m, rel) \in Range(toCopy)
                    /\ \A m \in Range(modulesToApply) :
                          (ModuleSelects(m, rel) /\ ModuleIgnores(m, rel)
                              /\ ModuleEntry(m, rel) \in Range(toCopy))
                              => \/ DefaultSelects(rel) /\ RootEntry(rel) = ModuleEntry(m, rel)
                                 \/ \E o \in Range(modulesToApply) \ {m} :
                                       /\ ModuleSelects(o, rel) /\ ~ModuleIgnores(o, rel)
                                       /\ ModuleEntry(o, rel) = ModuleEntry(m, rel)

\* the defaults include `*`, the two resolved modules include `*` below d,
\* and only A ignores a: a stays in the plan at the root (default rule) and
\* below d (rule of B), and no entry is lost
C32_Witness ==
    /\ CopyDone
    /\ modulesToApply = <<"A", "B">>
    /\ ModuleSelects("A", <<"a">>) /\ ModuleIgnores("A", <<"a">>)
    /\ ModuleSelects("B", <<"a">>) /\ ~ModuleIgnores("B", <<"a">>)
    /\ DefaultSelects(<<"a">>) /\ ~DefaultIgnores(<<"a">>)
    /\ RootEntry(<<"a">>) \in Range(toCopy)
    /\ ModuleEntry("B", <<"a">>) \in Range(toCopy)
    /\ ModuleEntry("B", <<"a">>) = <<RepoDir \o <<"/", "a">>, <<"d", "/", "a">>>>
    /\ IsSome(config.modules["A"].path)

(***************************************************************************)
(* C33: every field of the `default` table is optional, the origin too: a  *)
(* file whose `default` table declares include or ignore patterns and no   *)
(* origin is accepted by loadConfig (which throws none of its errors).     *)
(***************************************************************************)
C33_OriginOptional ==
    (LoadRan /\ repoFile = "ok" /\ DefaultsLackOrigin /\ validateConfig(config).kind = "ok")
        => ~LoadFailed

(***************************************************************************)
(* C34                                                                     *)
(***************************************************************************)
\* invocation i is between its workspace setup and its cleanup
HoldsWorkspace(i) == uses[i] \in {"cloneRepo", "loadConfig", "cleanup"}

\* the step empties or removes the directory
EmptiesOrRemoves ==
    \/ sharedDir.exists /\ ~sharedDir'.exists
    \/ ~(sharedDir.clones \subseteq sharedDir'.clones)
    \/ \E j \in DOMAIN uses :
          \/ uses[j] = "setupTempDir" /\ uses'[j] = "cloneRepo"
          \/ uses[j] = "cleanup" /\ uses'[j] = "done"

\* C34: the workspace is exclusively owned by one invocation: while an
\* invocation is between its workspace setup and its cleanup, no step of
\* another invocation started from the same working directory empties or
\* removes the workspace.
C34_WorkspaceExclusive ==
    [][\A i \in DOMAIN uses :
          (HoldsWorkspace(i) /\ uses'[i] = uses[i]) => ~EmptiesOrRemoves]_vars

(***************************************************************************)
(* C35                                                                     *)
(***************************************************************************)
\* the application of some module failed (a cherry-pick or a continuation
\* ended with a status other than success and conflict, or an error left
\* applyModuleRefs) or was cancelled by the operator
ApplicationFailedOrCancelled ==
    \/ \E i \in 1..Len(calls) :
          \/ calls[i].op \in {"cherry-pick", "continue"} /\ calls[i].res = "fatal"
          \/ calls[i].op = "prompt" /\ calls[i].res = "cancel"
    \/ thrown.cls \in {"ExecaError", "OperationCancelledError"}

\* C35: copyToTarget, the creation of the target directory included, is
\* called only after the pipeline of every resolved module has completed
\* without error: when the application of a module failed or was cancelled,
\* copyToTarget is not called and nothing is written to the target.
C35_CopyAfterAllPipelines ==
    ApplicationFailedOrCancelled =>
        /\ pc # "copyToTarget"
        /\ target = {}
        /\ \A i \in 1..Len(calls) : ~IsCopy(calls[i])

(***************************************************************************)
(* C36                                                                     *)
(***************************************************************************)
\* call c left the application of its revision stopped in conflict
EndedInConflict(c) == c.op \in {"cherry-pick", "continue"} /\ c.res = "conflict"

\* calls c and d concern the same revision of the same ref of the same module
SameRevision(c, d) == c.mod = d.mod /\ c.ref = d.ref /\ c.rev = d.rev

\* a conflict sub-machine of the run ended without success: the abort
\* failed, or the continuation failed with a status other than conflict
SomeSubMachineFailed ==
    \E i \in 1..Len(calls) :
        \/ calls[i].op = "abort" /\ calls[i].res = "fail"
        \/ calls[i].op = "continue" /\ calls[i].res = "fatal"

\* C36: the operator is prompted only while an application is stopped in
\* conflict, directly after the cherry-pick or the continuation of that
\* revision ended with the conflict status; cherry-pick --continue and
\* cherry-pick --abort are called only directly after the operator chose
\* "continue", "cancel" at such a prompt; and when the sub-machine has ended
\* by success no application is in progress: the next revision starts on a
\* workspace with no cherry-pick under way.
C36_PromptOnlyInConflict ==
    /\ pc = "prompt" =>
          /\ picking
          /\ Len(calls) >= 1 /\ EndedInConflict(Newest)
    /\ (Len(calls) >= 2 /\ Newest.op = "prompt") =>
          /\ EndedInConflict(Previous)
          /\ SameRevision(Previous, Newest)
          /\ picking
          /\ pc = (IF Newest.res = "cancel" THEN "abort" ELSE "continue")
    /\ (Len(calls) >= 1 /\ Newest.op = "prompt") => Len(calls) >= 2
    /\ pc \in {"continue", "abort"} => (Len(calls) >= 1 /\ Newest.op = "prompt")
    /\ (Len(calls) >= 1 /\ Newest.op = "continue") =>
          /\ Len(calls) >= 2
          /\ Previous.op = "prompt" /\ Previous.res = "continue"
          /\ SameRevision(Previous, Newest)
          /\ Newest.res = "ok" => ~picking
    /\ (Len(calls) >= 1 /\ Newest.op = "abort") =>
          /\ Len(calls) >= 2
          /\ Previous.op = "prompt" /\ Previous.res = "cancel"
          /\ SameRevision(Previous, Newest)
    /\ (pc = "cherryPick" /\ picking) => SomeSubMachineFailed

\* r1 stopped in conflict, the operator chose "continue", the continuation
\* succeeded, and the next revision r2 of the same ref has been applied
C36_Witness ==
    /\ Len(calls) > 4
    /\ calls[Len(calls) - 3] = Call("cherry-pick", 1, 1, 1, "conflict")
    /\ calls[Len(calls) - 2] = Call("prompt", 1, 1, 1, "continue")
    /\ Previous = Call("continue", 1, 1, 1, "ok")
    /\ Newest = Call("cherry-pick", 1, 1, 2, "ok")
    /\ ~picking

(***************************************************************************)
(* C37                                                                     *)
(***************************************************************************)
\* the operator chose "cancel" and cherry-pick --abort failed
AbortFailed == \E i \in 1..Len(calls) : calls[i].op = "abort" /\ calls[i].res = "fail"

\* C37: when the operator chooses "cancel" and cherry-pick --abort fails,
\* the error of the abort is raised in place of OperationCancelledError and
\* the run ends as a failure with status 1, not as a cancellation;
\* OperationCancelledError is raised only after an abort that succeeded.
C37_AbortFailureFailsRun ==
    /\ (pc = "done" /\ AbortFailed) =>
          /\ err = ExecaError(128)
          /\ exitCode = 1
    /\ (thrown = OperationCancelledError \/ err = OperationCancelledError) =>
          (Len(calls) >= 1 /\ \E i \in 1..Len(calls) : calls[i].op = "abort" /\ calls[i].res = "ok")

(***************************************************************************)
(* C38                                                                     *)
(***************************************************************************)
\* the default-level include rule runs: the defaults have include patterns
DefaultRuleRuns == NonEmpty(DefaultFiles(config))

\* the include rule of some resolved module runs
SomeModuleRuleRuns ==
    \E i \in 1..Len(modulesToApply) : NonEmpty(config.modules[modulesToApply[i]].files)

\* what the copy-everything rule selects: every workspace file outside the
\* metadata directory that no default-level ignore pattern matches
EverythingEntries ==
    {RootEntry(workspace[k]) :
        k \in {j \in 1..Len(workspace) :
                  ~InMetadataDir(workspace[j]) /\ ~DefaultIgnores(workspace[j])}}

\* C38: copyToTarget evaluates at least one selection rule, and the
\* copy-everything rule exactly when no include rule is evaluated, also when
\* the default-level include list is present but empty: with no include
\* rule the plan is what copy-everything selects, and with an include rule
\* it is what the include rules select.
C38_SomeRuleEvaluated ==
    CopyDone =>
        /\ (~DefaultRuleRuns /\ ~SomeModuleRuleRuns) =>
              /\ Range(toCopy) = EverythingEntries
              /\ Len(toCopy) = Cardinality(EverythingEntries)
        /\ (DefaultRuleRuns \/ SomeModuleRuleRuns) =>
              toCopy = WithoutRepeats(AllRuleEntries)

(***************************************************************************)
(* C39                                                                     *)
(***************************************************************************)
\* validateConfig has returned or thrown and nothing was requested yet
ValidatedOnly == pc \in {"resolveDependencies", "rejected"} /\ modules = <<>>

\* the configuration is sound: every dependency is a module, none is the
\* module itself, the dependency graph has no cycle, no array is empty
SoundConfig ==
    /\ ~MissingDependency
    /\ ~SelfDependency
    /\ ~HasCycle(config)
    /\ ~SomeEmptyArray

\* some module is reached from another along two different paths
TwoPaths ==
    \E n \in Range(config.keys) : \E d, e \in DirectDeps(config, n) :
        /\ d # e
        /\ \E m \in Range(config.keys) :
              /\ m \in {d} \cup TransDeps(config, d)
              /\ m \in {e} \cup TransDeps(config, e)
              /\ DirectDeps(config, m) # {}

\* C39: validateConfig returns without error on every configuration whose
\* dependencies all exist, with no self-dependency, no cycle and no empty
\* array; a module reached along two dependency paths is not reported as a
\* cycle (the cycle error is raised only for a graph that has a cycle), and
\* the search ends.
C39_SoundConfigAccepted ==
    ValidatedOnly =>
        /\ SoundConfig => (verdict = ConfigOk /\ pc = "resolveDependencies")
        /\ verdict.kind = "circular" => HasCycle(config)

\* A depends on C and B, B on C, C on D: C, which has a dependency of its
\* own, is reached from A directly and through B, and the configuration is
\* accepted
C39_Witness ==
    /\ ValidatedOnly
    /\ config.keys = <<"A", "B", "C", "D">>
    /\ config.modules["A"].dependencies = Some(<<"C", "B">>)
    /\ config.modules["B"].dependencies = Some(<<"C">>)
    /\ SoundConfig
    /\ TwoPaths
    /\ verdict = ConfigOk

====
